---- MODULE Spec2Model ----
(***************************************************************************)
(* A model of the parsing core of whatsapp_wrapped/parser.py: the          *)
(* timestamp interpreter (_parse_timestamp), the date-order detector       *)
(* (_detect_date_order), the line segmenter and table builder              *)
(* (parse_chat), the filters and the metadata computation                  *)
(* (parse_whatsapp_export).                                                *)
(*                                                                         *)
(* Text is modelled character by character: a Python str is a TLA+ string, *)
(* s[i] is Ch(s, i), and every regular expression of the source is         *)
(* translated into an operator over the characters of its subject.         *)
(***************************************************************************)
EXTENDS Integers, Sequences, FiniteSets, TLC

(***************************************************************************)
(* Bounds of the model.                                                    *)
(***************************************************************************)
\* the longest raw text, in lines
MaxLines == 3

(***************************************************************************)
(* Characters and strings.                                                 *)
(***************************************************************************)
None == "None"

Ch(s, i) == SubSeq(s, i, i)

DigitChars == {"0", "1", "2", "3", "4", "5", "6", "7", "8", "9"}

DigitVal ==
  [c \in DigitChars |->
     CASE c = "0" -> 0 [] c = "1" -> 1 [] c = "2" -> 2 [] c = "3" -> 3
       [] c = "4" -> 4 [] c = "5" -> 5 [] c = "6" -> 6 [] c = "7" -> 7
       [] c = "8" -> 8 [] c = "9" -> 9]

\* \s of the re module and the white space of str.strip()
SpaceChars == {" ", "\t", "\n", "\r"}

UpperChars == {"A", "B", "C", "D", "E", "F", "G", "H", "I", "J", "K", "L", "M",
               "N", "O", "P", "Q", "R", "S", "T", "U", "V", "W", "X", "Y", "Z"}

LowerChars == {"a", "b", "c", "d", "e", "f", "g", "h", "i", "j", "k", "l", "m",
               "n", "o", "p", "q", "r", "s", "t", "u", "v", "w", "x", "y", "z"}

\* \w of the re module: letters, digits and the underscore
WordChars == UpperChars \cup LowerChars \cup DigitChars \cup {"_"}

\* str.lower() on one character
LowerOf(c) ==
  CASE c = "A" -> "a" [] c = "B" -> "b" [] c = "C" -> "c" [] c = "D" -> "d"
    [] c = "E" -> "e" [] c = "F" -> "f" [] c = "G" -> "g" [] c = "H" -> "h"
    [] c = "I" -> "i" [] c = "J" -> "j" [] c = "K" -> "k" [] c = "L" -> "l"
    [] c = "M" -> "m" [] c = "N" -> "n" [] c = "O" -> "o" [] c = "P" -> "p"
    [] c = "Q" -> "q" [] c = "R" -> "r" [] c = "S" -> "s" [] c = "T" -> "t"
    [] c = "U" -> "u" [] c = "V" -> "v" [] c = "W" -> "w" [] c = "X" -> "x"
    [] c = "Y" -> "y" [] c = "Z" -> "z" [] OTHER -> c

\* str.upper() on one character
UpperOf(c) ==
  CASE c = "a" -> "A" [] c = "m" -> "M" [] c = "p" -> "P" [] OTHER -> c

RECURSIVE ToLowerIn(_, _, _)
\* str.lower() of s[lo .. hi], the halves lowered apart and joined
ToLowerIn(s, lo, hi) ==
  IF lo > hi THEN ""
  ELSE IF lo = hi THEN LowerOf(Ch(s, lo))
  ELSE LET mid == (lo + hi) \div 2
       IN  ToLowerIn(s, lo, mid) \o ToLowerIn(s, mid + 1, hi)

\* str.lower() / Expr.str.to_lowercase()
ToLower(s) == ToLowerIn(s, 1, Len(s))

\* str.lstrip(chars): from the first character that is not in chars on
LStripChars(s, chars) ==
  LET kept == {i \in 1..Len(s) : Ch(s, i) \notin chars}
  IN  IF kept = {} THEN ""
      ELSE SubSeq(s, CHOOSE i \in kept : \A k \in kept : i <= k, Len(s))

\* str.rstrip(chars): up to the last character that is not in chars
RStripChars(s, chars) ==
  LET kept == {i \in 1..Len(s) : Ch(s, i) \notin chars}
  IN  IF kept = {} THEN ""
      ELSE SubSeq(s, 1, CHOOSE i \in kept : \A k \in kept : i >= k)

\* str.strip(): white space off both ends
Strip(s) == RStripChars(LStripChars(s, SpaceChars), SpaceChars)

\* `needle in s` / re.search of a literal
Contains(s, needle) ==
  \E i \in 1..(Len(s) - Len(needle) + 1) :
     SubSeq(s, i, i + Len(needle) - 1) = needle

\* str.startswith at offset i (1-based)
StartsAt(s, i, prefix) ==
  /\ i + Len(prefix) - 1 <= Len(s)
  /\ SubSeq(s, i, i + Len(prefix) - 1) = prefix

\* str.endswith
EndsWith(s, suffix) ==
  /\ Len(suffix) <= Len(s)
  /\ SubSeq(s, Len(s) - Len(suffix) + 1, Len(s)) = suffix

RECURSIVE ToInt(_)
\* int() of a string of decimal digits
ToInt(s) ==
  IF Len(s) = 0 THEN 0
  ELSE ToInt(SubSeq(s, 1, Len(s) - 1)) * 10 + DigitVal[Ch(s, Len(s))]

\* all characters of s[i .. i+n-1] exist and are digits
DigitsAt(s, i, n) ==
  /\ i + n - 1 <= Len(s)
  /\ \A k \in i..(i + n - 1) : Ch(s, k) \in DigitChars

(***************************************************************************)
(* datetime and datetime.strptime.                                         *)
(***************************************************************************)
\* the value None of `datetime | None`: no datetime has year 0
NoDate == [y |-> 0, mo |-> 0, d |-> 0, h |-> 0, mi |-> 0, s |-> 0]

IsLeap(y) == (y % 4 = 0 /\ y % 100 # 0) \/ y % 400 = 0

DaysIn(y, mo) ==
  CASE mo \in {4, 6, 9, 11} -> 30
    [] mo = 2 -> IF IsLeap(y) THEN 29 ELSE 28
    [] OTHER -> 31

\* the day and the second of the day of a datetime, as numbers that grow with it
DayKey(t) == (t.y * 13 + t.mo) * 32 + t.d

SecondKey(t) == (t.h * 60 + t.mi) * 60 + t.s

\* a <= b on datetime
DateLE(a, b) ==
  \/ DayKey(a) < DayKey(b)
  \/ DayKey(a) = DayKey(b) /\ SecondKey(a) <= SecondKey(b)

\* the match object of strptime's compiled format: the groups found so far
NoMatch == [ok |-> FALSE, end |-> 0, d |-> 0, m |-> 0, y |-> 0,
            H |-> 0, I |-> 0, M |-> 0, S |-> 0, p |-> ""]

EmptyMatch == [NoMatch EXCEPT !.ok = TRUE, !.d = 1, !.m = 1, !.y = 1900]

\* the two-digit alternatives of a directive's regex, tried first
TwoDigitOK(dir, v) ==
  CASE dir = "d" -> v >= 1 /\ v <= 31
    [] dir = "m" -> v >= 1 /\ v <= 12
    [] dir = "H" -> v <= 23
    [] dir = "I" -> v >= 1 /\ v <= 12
    [] dir = "M" -> v <= 59
    [] dir = "S" -> v <= 61
    [] OTHER -> FALSE

\* the one-digit alternative of a directive's regex: [1-9] or \d
OneDigitOK(dir, v) ==
  IF dir \in {"d", "m", "I"} THEN v >= 1 ELSE dir \in {"H", "M", "S"}

\* %y: 69..99 are 19xx, 00..68 are 20xx
TwoDigitYear(v) == IF v < 69 THEN 2000 + v ELSE 1900 + v

RECURSIVE SkipSpaces(_, _)
\* \s* and \s+, greedy: the position after the white space that starts at i
SkipSpaces(s, i) ==
  IF i <= Len(s) /\ Ch(s, i) \in SpaceChars THEN SkipSpaces(s, i + 1) ELSE i

RECURSIVE StrpFrom(_, _, _, _, _)
\* the regex strptime compiles from fmt, matched from s[i] on with fmt[j] next:
\* directives take their longest alternative first and back off to the shorter
StrpFrom(s, i, fmt, j, acc) ==
  IF j > Len(fmt) THEN [acc EXCEPT !.end = i]
  ELSE IF Ch(fmt, j) = "%" THEN
    LET dir == Ch(fmt, j + 1)
    IN  CASE dir \in {"d", "m", "H", "I", "M", "S"} ->
               LET two == IF DigitsAt(s, i, 2)
                             /\ TwoDigitOK(dir, ToInt(SubSeq(s, i, i + 1)))
                          THEN StrpFrom(s, i + 2, fmt, j + 2,
                                 [acc EXCEPT ![dir] = ToInt(SubSeq(s, i, i + 1))])
                          ELSE NoMatch
                   one == IF DigitsAt(s, i, 1) /\ OneDigitOK(dir, ToInt(Ch(s, i)))
                          THEN StrpFrom(s, i + 1, fmt, j + 2,
                                 [acc EXCEPT ![dir] = ToInt(Ch(s, i))])
                          ELSE NoMatch
                   sp  == IF dir = "d" /\ i <= Len(s) /\ Ch(s, i) = " "
                             /\ DigitsAt(s, i + 1, 1) /\ ToInt(Ch(s, i + 1)) >= 1
                          THEN StrpFrom(s, i + 2, fmt, j + 2,
                                 [acc EXCEPT !.d = ToInt(Ch(s, i + 1))])
                          ELSE NoMatch
               IN  IF two.ok THEN two ELSE IF one.ok THEN one ELSE sp
          [] dir = "y" ->
               IF DigitsAt(s, i, 2)
               THEN StrpFrom(s, i + 2, fmt, j + 2,
                      [acc EXCEPT !.y = TwoDigitYear(ToInt(SubSeq(s, i, i + 1)))])
               ELSE NoMatch
          [] dir = "Y" ->
               IF DigitsAt(s, i, 4)
               THEN StrpFrom(s, i + 4, fmt, j + 2,
                      [acc EXCEPT !.y = ToInt(SubSeq(s, i, i + 3))])
               ELSE NoMatch
          [] dir = "p" ->
               IF i + 1 <= Len(s) /\ ToLower(SubSeq(s, i, i + 1)) \in {"am", "pm"}
               THEN StrpFrom(s, i + 2, fmt, j + 2,
                      [acc EXCEPT !.p = ToLower(SubSeq(s, i, i + 1))])
               ELSE NoMatch
          [] OTHER -> NoMatch
  ELSE IF Ch(fmt, j) \in SpaceChars THEN
    \* white space in the format is \s+
    IF i <= Len(s) /\ Ch(s, i) \in SpaceChars
    THEN StrpFrom(s, SkipSpaces(s, i), fmt, j + 1, acc)
    ELSE NoMatch
  ELSE
    IF i <= Len(s) /\ Ch(s, i) = Ch(fmt, j)
    THEN StrpFrom(s, i + 1, fmt, j + 1, acc)
    ELSE NoMatch

\* datetime.strptime(s, fmt), NoDate where it raises ValueError
strptime(s, fmt) ==
  LET found == StrpFrom(s, 1, fmt, 1, EmptyMatch)
      h12   == Contains(fmt, "%I")
      hour  == IF ~h12 THEN found.H
               ELSE IF found.p \in {"", "am"}
                    THEN (IF found.I = 12 THEN 0 ELSE found.I)
                    ELSE (IF found.I = 12 THEN 12 ELSE found.I + 12)
  IN  IF /\ found.ok
         /\ found.end = Len(s) + 1          \* else "unconverted data remains"
         /\ found.y >= 1
         /\ found.d <= DaysIn(found.y, found.m)
         /\ found.S <= 59
      THEN [y |-> found.y, mo |-> found.m, d |-> found.d,
            h |-> hour, mi |-> found.M, s |-> found.S]
      ELSE NoDate

\* src/whatsapp_wrapped/parser.py:30-101, the candidate formats in list order
DATE_FORMATS ==
  <<
    "%d-%m-%y, %H:%M:%S",
    "%d/%m/%y, %H:%M:%S",
    "%m/%d/%y, %H:%M:%S",
    "%d-%m-%Y, %H:%M:%S",
    "%d/%m/%Y, %H:%M:%S",
    "%m/%d/%Y, %H:%M:%S",
    "%d-%m-%y, %H:%M",
    "%d/%m/%y, %H:%M",
    "%m/%d/%y, %H:%M",
    "%Y-%m-%d, %H:%M:%S",
    "%d.%m.%y, %H:%M:%S",
    "%d.%m.%Y, %H:%M:%S",
    "%m/%d/%y, %I:%M:%S %p",
    "%m/%d/%y, %I:%M %p",
    "%d/%m/%y, %I:%M:%S %p",
    "%d/%m/%y, %I:%M %p",
    "%m/%d/%Y, %I:%M:%S %p",
    "%m/%d/%Y, %I:%M %p",
    "%d/%m/%Y, %I:%M:%S %p",
    "%d/%m/%Y, %I:%M %p",
    "%d-%m-%y, %I:%M:%S %p",
    "%d-%m-%y, %I:%M %p",
    "%d-%m-%Y, %I:%M:%S %p",
    "%d-%m-%Y, %I:%M %p",
    "%Y/%m/%d, %H:%M:%S",
    "%Y/%m/%d, %H:%M",
    "%Y-%m-%d, %I:%M:%S %p",
    "%Y-%m-%d, %I:%M %p",
    "%Y/%m/%d, %I:%M:%S %p",
    "%Y/%m/%d, %I:%M %p",
    "%Y.%m.%d, %H:%M:%S",
    "%Y.%m.%d, %H:%M",
    "%Y.%m.%d, %I:%M:%S %p",
    "%Y.%m.%d, %I:%M %p",
    "%d.%m.%y, %I:%M:%S %p",
    "%d.%m.%y, %I:%M %p",
    "%d.%m.%Y, %I:%M:%S %p",
    "%d.%m.%Y, %I:%M %p",
    "%d/%m/%y %H:%M:%S",
    "%d/%m/%y %H:%M",
    "%m/%d/%y %H:%M:%S",
    "%m/%d/%y %H:%M",
    "%d-%m-%y %H:%M:%S",
    "%d-%m-%y %H:%M",
    "%d-%m-%Y %H:%M:%S",
    "%d-%m-%Y %H:%M",
    "%d/%m/%Y %H:%M:%S",
    "%d/%m/%Y %H:%M",
    "%m/%d/%Y %H:%M:%S",
    "%m/%d/%Y %H:%M",
    "%d.%m.%y %H:%M:%S",
    "%d.%m.%y %H:%M",
    "%d.%m.%Y %H:%M:%S",
    "%d.%m.%Y %H:%M",
    "%d/%m/%y %I:%M:%S %p",
    "%d/%m/%y %I:%M %p",
    "%m/%d/%y %I:%M:%S %p",
    "%m/%d/%y %I:%M %p",
    "%d/%m/%Y %I:%M:%S %p",
    "%d/%m/%Y %I:%M %p",
    "%m/%d/%Y %I:%M:%S %p",
    "%m/%d/%Y %I:%M %p",
    "%Y-%m-%dT%H:%M:%S",
    "%Y-%m-%dT%H:%M"
  >>

(***************************************************************************)
(* _parse_timestamp: normalisation, then the cached format, then the list. *)
(***************************************************************************)
RECURSIVE CompactMeridiemFrom(_, _)
\* re.sub(r"([APap])\.([Mm])\.", r"\1\2", s), from s[i] on
CompactMeridiemFrom(s, i) ==
  IF i > Len(s) THEN ""
  ELSE IF /\ i + 3 <= Len(s)
          /\ Ch(s, i) \in {"A", "P", "a", "p"} /\ Ch(s, i + 1) = "."
          /\ Ch(s, i + 2) \in {"M", "m"} /\ Ch(s, i + 3) = "."
       THEN Ch(s, i) \o Ch(s, i + 2) \o CompactMeridiemFrom(s, i + 4)
       ELSE Ch(s, i) \o CompactMeridiemFrom(s, i + 1)

\* a variant of CompactMeridiem that leaves the dotted meridiem as written
KeepDottedMeridiem(s) == s

CompactMeridiem(s) == CompactMeridiemFrom(s, 1)

RECURSIVE SpaceMeridiemFrom(_, _)
\* re.sub(r"(\d)([APap][Mm])", r"\1 \2", s), from s[i] on
SpaceMeridiemFrom(s, i) ==
  IF i > Len(s) THEN ""
  ELSE IF /\ i + 2 <= Len(s)
          /\ Ch(s, i) \in DigitChars
          /\ Ch(s, i + 1) \in {"A", "P", "a", "p"} /\ Ch(s, i + 2) \in {"M", "m"}
       THEN Ch(s, i) \o " " \o SubSeq(s, i + 1, i + 2) \o SpaceMeridiemFrom(s, i + 3)
       ELSE Ch(s, i) \o SpaceMeridiemFrom(s, i + 1)

SpaceMeridiem(s) == SpaceMeridiemFrom(s, 1)

\* \b of the re module at the gap before s[i]
WordBoundary(s, i) ==
  LET before == i > 1 /\ Ch(s, i - 1) \in WordChars
      after  == i <= Len(s) /\ Ch(s, i) \in WordChars
  IN  before # after

RECURSIVE UpperMeridiemFrom(_, _)
\* re.sub(r"\b([APap][Mm])\b", lambda m: m.group(1).upper(), s), from s[i] on
UpperMeridiemFrom(s, i) ==
  IF i > Len(s) THEN ""
  ELSE IF /\ i + 1 <= Len(s)
          /\ Ch(s, i) \in {"A", "P", "a", "p"} /\ Ch(s, i + 1) \in {"M", "m"}
          /\ WordBoundary(s, i) /\ WordBoundary(s, i + 2)
       THEN UpperOf(Ch(s, i)) \o UpperOf(Ch(s, i + 1)) \o UpperMeridiemFrom(s, i + 2)
       ELSE Ch(s, i) \o UpperMeridiemFrom(s, i + 1)

\* re.search(r"[,\s]\d{1,2}\.\d{2}", s)
HasDotTime(s) ==
  \E i \in 1..Len(s) :
     /\ Ch(s, i) \in SpaceChars \cup {","}
     /\ \E n \in 1..2 :
          /\ DigitsAt(s, i + 1, n)
          /\ i + n + 1 <= Len(s) /\ Ch(s, i + n + 1) = "."
          /\ DigitsAt(s, i + n + 2, 2)

RECURSIVE DotsToColonsFrom(_, _)
\* re.sub(r"\.", ":", s), from s[i] on
DotsToColonsFrom(s, i) ==
  IF i > Len(s) THEN ""
  ELSE (IF Ch(s, i) = "." THEN ":" ELSE Ch(s, i)) \o DotsToColonsFrom(s, i + 1)

RECURSIVE FirstSeparator(_, _)
\* where the first run of [,\s]+ starts, Len(s) + 1 when there is none
FirstSeparator(s, i) ==
  IF i > Len(s) \/ Ch(s, i) \in SpaceChars \cup {","} THEN i
  ELSE FirstSeparator(s, i + 1)

RECURSIVE SkipSeparator(_, _)
\* the position after the run of [,\s]+ that starts at i
SkipSeparator(s, i) ==
  IF i <= Len(s) /\ Ch(s, i) \in SpaceChars \cup {","}
  THEN SkipSeparator(s, i + 1) ELSE i

\* a variant of NormalizeDotTime that turns every dot of the token into a colon
DotsToColonsEverywhere(s) ==
  IF HasDotTime(s) THEN DotsToColonsFrom(s, 1) ELSE s

\* parser.py:216-223: dots become colons in the part after the first
\* separator run only
NormalizeDotTime(s) ==
  IF HasDotTime(s)
  THEN LET b == FirstSeparator(s, 1)
           e == SkipSeparator(s, b)
       IN  SubSeq(s, 1, e - 1) \o DotsToColonsFrom(s, e)
  ELSE s

\* parser.py:203-223
NormalizeTimestamp(timestamp_str) ==
  NormalizeDotTime(
    UpperMeridiemFrom(SpaceMeridiem(CompactMeridiem(Strip(timestamp_str))), 1))

\* the argument cached_format=None: no cache cell is passed
NoCell == "NoCell"

\* parser.py:233-243: the index of the first format of the list that parses
\* s, 0 when none does
TryFormats(s, date_formats) ==
  LET parsing == {i \in 1..Len(date_formats) :
                    strptime(s, date_formats[i]) # NoDate}
  IN  IF parsing = {} THEN 0
      ELSE CHOOSE i \in parsing : \A j \in parsing : i <= j

\* a variant of _parse_timestamp that returns None when the cached format
\* does not parse the token, without trying the list
parse_timestamp_without_fall_through(timestamp_str, date_formats, cached_format) ==
  LET s == NormalizeTimestamp(timestamp_str)
      k == TryFormats(s, date_formats)
  IN  IF cached_format \notin {NoCell, None}
      THEN [result |-> strptime(s, cached_format), cache |-> cached_format]
      ELSE IF k # 0
           THEN [result |-> strptime(s, date_formats[k]),
                 cache  |-> IF cached_format = NoCell THEN NoCell
                            ELSE date_formats[k]]
           ELSE [result |-> NoDate, cache |-> cached_format]

\* _parse_timestamp: the datetime returned and the cell's content afterwards.
\* cached_format is NoCell (no cell), None (the cell [None]) or a format.
_parse_timestamp(timestamp_str, date_formats, cached_format) ==
  LET s   == NormalizeTimestamp(timestamp_str)
      hit == IF cached_format \notin {NoCell, None}
             THEN strptime(s, cached_format) ELSE NoDate
      k   == TryFormats(s, date_formats)
  IN  IF hit # NoDate THEN [result |-> hit, cache |-> cached_format]
      ELSE IF k # 0
           THEN [result |-> strptime(s, date_formats[k]),
                 cache  |-> IF cached_format = NoCell THEN NoCell
                            ELSE date_formats[k]]
           ELSE [result |-> NoDate, cache |-> cached_format]

(***************************************************************************)
(* Regular expressions.  A pattern is a sequence of items, matched with    *)
(* the priorities of a backtracking matcher: a greedy item takes the most  *)
(* it can and gives back one at a time, a lazy item takes the least and    *)
(* grows, an optional group is tried before it is skipped, alternatives    *)
(* are tried in order.  The matches are kept as a list in that order, and  *)
(* the match of the pattern is the first of the list.                      *)
(***************************************************************************)
\* [c]{lo,hi}; hi = -1 is no upper limit
Cls(c, lo, hi) ==
  [t |-> "cls", c |-> c, neg |-> FALSE, lo |-> lo, hi |-> hi, greedy |-> TRUE]

\* [^c]{lo,hi}
NotCls(c, lo, hi) ==
  [t |-> "cls", c |-> c, neg |-> TRUE, lo |-> lo, hi |-> hi, greedy |-> TRUE]

\* .{lo,} : any character but the newline
AnyChar(lo) == NotCls({"\n"}, lo, -1)

\* .{lo,}?
AnyCharLazy(lo) == [AnyChar(lo) EXCEPT !.greedy = FALSE]

\* \d{lo,hi}
Digits(lo, hi) == Cls(DigitChars, lo, hi)

\* a literal string
Lit(s) == [t |-> "lit", s |-> s]

\* ( and ) of capture group g
Open(g) == [t |-> "open", g |-> g]

Close(g) == [t |-> "close", g |-> g]

\* (?:sub)?
Opt(sub) == [t |-> "opt", sub |-> sub]

\* (?:subs[1]|subs[2]|...)
Alt(subs) == [t |-> "alt", subs |-> subs]

\* $
Eol == [t |-> "eol"]

ReFail == [ok |-> FALSE, end |-> 0, caps |-> <<>>]

NoCaps == <<<<0, 0>>, <<0, 0>>, <<0, 0>>>>

InClass(it, ch) == IF it.neg THEN ch \notin it.c ELSE ch \in it.c

\* how many characters from s[p] on are in the class of item it, it.hi at
\* most: the least count that meets the limit, the end of s or a character
\* outside the class
RunLen(s, p, it) ==
  LET left == Len(s) - p + 1
      most == IF it.hi = -1 \/ left < it.hi THEN left ELSE it.hi
  IN  CHOOSE n \in 0..most :
        /\ n = most \/ ~InClass(it, Ch(s, p + n))
        /\ \A k \in 0..(n - 1) : InClass(it, Ch(s, p + k))

RECURSIVE Flatten(_, _, _)
\* seqs[lo] \o ... \o seqs[hi], the halves done apart
Flatten(seqs, lo, hi) ==
  IF lo > hi THEN << >>
  ELSE IF lo = hi THEN seqs[lo]
  ELSE LET mid == (lo + hi) \div 2
       IN  Flatten(seqs, lo, mid) \o Flatten(seqs, mid + 1, hi)

RECURSIVE ReMatch(_, _, _)
RECURSIVE ReItem(_, _, _)

\* the matches of items that continue one of the matches ms, in the order a
\* backtracking matcher reaches them: item by item, every match so far is
\* replaced by its continuations in priority order
ReMatch(items, s, ms) ==
  IF Len(items) = 0 \/ Len(ms) = 0 THEN ms
  ELSE ReMatch(Tail(items), s,
         Flatten([k \in 1..Len(ms) |-> ReItem(Head(items), s, ms[k])],
                 1, Len(ms)))

\* the continuations of the match m by the item it, in priority order
ReItem(it, s, m) ==
  CASE it.t = "cls" ->
         LET most == RunLen(s, m.end, it)
         IN  IF most < it.lo THEN << >>
             ELSE [k \in 1..(most - it.lo + 1) |->
                     [m EXCEPT !.end = @ + (IF it.greedy THEN most - k + 1
                                            ELSE it.lo + k - 1)]]
    [] it.t = "lit" ->
         IF StartsAt(s, m.end, it.s)
         THEN << [m EXCEPT !.end = @ + Len(it.s)] >>
         ELSE << >>
    [] it.t = "open" -> << [m EXCEPT !.caps[it.g] = << m.end, m.end >>] >>
    [] it.t = "close" -> << [m EXCEPT !.caps[it.g][2] = m.end] >>
    [] it.t = "opt" -> ReMatch(it.sub, s, << m >>) \o << m >>
    [] it.t = "alt" ->
         Flatten([k \in 1..Len(it.subs) |-> ReMatch(it.subs[k], s, << m >>)],
                 1, Len(it.subs))
    [] it.t = "eol" -> IF m.end = Len(s) + 1 THEN << m >> ELSE << >>

\* pattern.match(s, p): the first match, in priority order, from s[p] on
ReMatchAt(pattern, s, p) ==
  LET ms == ReMatch(pattern, s, << [ok |-> TRUE, end |-> p, caps |-> NoCaps] >>)
  IN  IF Len(ms) = 0 THEN ReFail ELSE ms[1]

\* re.match(pattern, s)
re_match(pattern, s) == ReMatchAt(pattern, s, 1)

\* match.group(g)
Group(s, r, g) == SubSeq(s, r.caps[g][1], r.caps[g][2] - 1)

(***************************************************************************)
(* The line patterns, parser.py:109-121.                                   *)
(***************************************************************************)
DateSepChars == {"-", "/", "."}

\* \d{1,4}[-/\.]\d{1,2}[-/\.]\d{1,4}[,\sT]+\d{1,2}[:\.]?\d{2}(?:[:\.]?\d{2})?
\* (?:\s*[APap]\.?[Mm]\.?)?
AndroidTimestamp ==
  << Digits(1, 4), Cls(DateSepChars, 1, 1), Digits(1, 2), Cls(DateSepChars, 1, 1),
     Digits(1, 4), Cls(SpaceChars \cup {",", "T"}, 1, -1),
     Digits(1, 2), Cls({":", "."}, 0, 1), Digits(2, 2),
     Opt(<< Cls({":", "."}, 0, 1), Digits(2, 2) >>),
     Opt(<< Cls(SpaceChars, 0, -1), Cls({"A", "P", "a", "p"}, 1, 1),
            Cls({"."}, 0, 1), Cls({"M", "m"}, 1, 1), Cls({"."}, 0, 1) >>) >>

\* (.+?):\s*(.*)
AuthorAndBody ==
  << Open(2), AnyCharLazy(1), Close(2), Lit(":"), Cls(SpaceChars, 0, -1),
     Open(3), AnyChar(0), Close(3) >>

MESSAGE_PATTERNS ==
  << \* \[(.+?)\] (.+?):\s*(.*)
     << Lit("["), Open(1), AnyCharLazy(1), Close(1), Lit("] ") >> \o AuthorAndBody,
     \* (<timestamp>)\s*-\s*(.+?):\s*(.*)
     << Open(1) >> \o AndroidTimestamp
       \o << Close(1), Cls(SpaceChars, 0, -1), Lit("-"), Cls(SpaceChars, 0, -1) >>
       \o AuthorAndBody >>

SYSTEM_MESSAGE_PATTERNS ==
  << \* \[(.+?)\] (.+)$
     << Lit("["), Open(1), AnyCharLazy(1), Close(1), Lit("] "),
        Open(2), AnyChar(1), Close(2), Eol >>,
     \* (<timestamp>)\s*-\s*(.+)$
     << Open(1) >> \o AndroidTimestamp
       \o << Close(1), Cls(SpaceChars, 0, -1), Lit("-"), Cls(SpaceChars, 0, -1),
             Open(2), AnyChar(1), Close(2), Eol >> >>

(***************************************************************************)
(* _detect_date_order and the ordered candidate list.                      *)
(***************************************************************************)
\* (\d{1,2})[-/\.](\d{1,2})[-/\.](\d{2,4})
date_pattern ==
  << Open(1), Digits(1, 2), Close(1), Cls(DateSepChars, 1, 1),
     Open(2), Digits(1, 2), Close(2), Cls(DateSepChars, 1, 1),
     Open(3), Digits(2, 4), Close(3) >>

\* the first position at or after p where date_pattern matches,
\* Len(s) + 1 when there is none
NextDate(s, p) ==
  LET at == {k \in p..Len(s) : /\ Ch(s, k) \in DigitChars
                               /\ ReMatchAt(date_pattern, s, k).ok}
  IN  IF at = {} THEN Len(s) + 1 ELSE CHOOSE k \in at : \A l \in at : k <= l

RECURSIVE DateFlagsFrom(_, _, _)
\* re.findall(date_pattern, raw_text) from raw_text[p] on, folded into
\* <<has_first_over_12, has_second_over_12>>
DateFlagsFrom(raw_text, p, flags) ==
  LET q == NextDate(raw_text, p)
      r == ReMatchAt(date_pattern, raw_text, q)
  IN  IF q > Len(raw_text) THEN flags
      ELSE DateFlagsFrom(raw_text, r.end,
             << flags[1] \/ ToInt(Group(raw_text, r, 1)) > 12,
                flags[2] \/ ToInt(Group(raw_text, r, 2)) > 12 >>)

\* a variant of _detect_date_order that lets a first component over 12 decide
\* before it looks at the second components
detect_first_component_wins(raw_text) ==
  LET flags == DateFlagsFrom(raw_text, 1, << FALSE, FALSE >>)
  IN  IF flags[1] THEN "DD/MM"
      ELSE IF flags[2] THEN "MM/DD"
      ELSE "ambiguous"

_detect_date_order(raw_text) ==
  LET flags == DateFlagsFrom(raw_text, 1, << FALSE, FALSE >>)
      has_first_over_12  == flags[1]
      has_second_over_12 == flags[2]
  IN  IF has_first_over_12 /\ ~has_second_over_12 THEN "DD/MM"
      ELSE IF has_second_over_12 /\ ~has_first_over_12 THEN "MM/DD"
      ELSE "ambiguous"

\* [f for f in DATE_FORMATS if f.startswith(prefix)]
FormatsStarting(prefix) ==
  SelectSeq(DATE_FORMATS, LAMBDA f : StartsAt(f, 1, prefix))

\* a variant of date_formats_to_use that keeps the listed order whatever the
\* detected order
date_formats_in_listed_order(date_order) == DATE_FORMATS

\* a variant of date_formats_to_use that filters: it leaves out the family of
\* the other order
date_formats_of_detected_order(date_order) ==
  IF date_order = "DD/MM" THEN FormatsStarting("%d") \o FormatsStarting("%Y")
  ELSE IF date_order = "MM/DD" THEN FormatsStarting("%m") \o FormatsStarting("%Y")
  ELSE DATE_FORMATS

\* parser.py:357-371
date_formats_to_use(date_order) ==
  LET dd_first   == FormatsStarting("%d")
      mm_first   == FormatsStarting("%m")
      year_first == FormatsStarting("%Y")
  IN  IF date_order = "DD/MM" THEN dd_first \o year_first \o mm_first
      ELSE IF date_order = "MM/DD" THEN mm_first \o year_first \o dd_first
      ELSE DATE_FORMATS

(***************************************************************************)
(* Text helpers of parse_chat.                                             *)
(***************************************************************************)
RECURSIVE ReplaceCRLFIn(_, _, _)
\* s[lo .. hi] without the "\r" of every "\r\n" of s, the halves done apart
ReplaceCRLFIn(s, lo, hi) ==
  IF lo > hi THEN ""
  ELSE IF lo = hi THEN (IF StartsAt(s, lo, "\r\n") THEN "" ELSE Ch(s, lo))
  ELSE LET mid == (lo + hi) \div 2
       IN  ReplaceCRLFIn(s, lo, mid) \o ReplaceCRLFIn(s, mid + 1, hi)

\* raw_text.replace("\r\n", "\n")
ReplaceCRLF(s) == ReplaceCRLFIn(s, 1, Len(s))

\* the position of the first "\n" at or after p, Len(s) + 1 when none
NextNewline(s, p) ==
  LET at == {k \in p..Len(s) : Ch(s, k) = "\n"}
  IN  IF at = {} THEN Len(s) + 1 ELSE CHOOSE k \in at : \A l \in at : k <= l

RECURSIVE SplitFrom(_, _)
\* s[p ..].split("\n")
SplitFrom(s, p) ==
  LET e == NextNewline(s, p)
  IN  IF e > Len(s) THEN << SubSeq(s, p, Len(s)) >>
      ELSE << SubSeq(s, p, e - 1) >> \o SplitFrom(s, e + 1)

\* raw_text.split("\n")
SplitLines(s) == SplitFrom(s, 1)

\* U+200E LEFT-TO-RIGHT MARK and U+200F RIGHT-TO-LEFT MARK.  A TLA+ string
\* cannot hold them: the braces stand for them and occur in no other role.
LRM == "{"

RLM == "}"

\* a variant of DirectionMarks without the right-to-left mark
LeftToRightMarkOnly == {LRM}

DirectionMarks == {LRM, RLM}

RECURSIVE RemoveNonWordNonSpaceFrom(_, _)
\* Expr.str.replace_all(r"[^\w\s]", ""), from s[i] on
RemoveNonWordNonSpaceFrom(s, i) ==
  IF i > Len(s) THEN ""
  ELSE (IF Ch(s, i) \in WordChars \cup SpaceChars THEN Ch(s, i) ELSE "")
       \o RemoveNonWordNonSpaceFrom(s, i + 1)

RemoveNonWordNonSpace(s) == RemoveNonWordNonSpaceFrom(s, 1)

\* parser.py:445: the cleaned author name
CleanName(name) == Strip(RemoveNonWordNonSpace(name))

\* (\s+\S+)
AnotherWord == << Cls(SpaceChars, 1, -1), NotCls(SpaceChars, 1, -1) >>

Words(ws) == [i \in 1..Len(ws) |-> << Lit(ws[i]) >>]

\* ^<?(keywords)(\s+\S+){1,2}>?$
MediaPattern(keywords) ==
  << Opt(<< Lit("<") >>), Alt(Words(keywords)) >>
    \o AnotherWord \o << Opt(AnotherWord), Opt(<< Lit(">") >>), Eol >>

\* ^<?(location|ubicación):
LocationPattern ==
  << Opt(<< Lit("<") >>), Alt(Words(<< "location", "ubicación" >>)), Lit(":") >>

\* https?://
HasUrl(message) == Contains(message, "http://") \/ Contains(message, "https://")

\* parser.py:460-465
msg_normalized(message) ==
  ToLower(Strip(RStripChars(LStripChars(message, DirectionMarks), DirectionMarks)))

\* parser.py:467-497, the when/then chain in its order
MessageType(message) ==
  LET n == msg_normalized(message)
      is(keywords) == re_match(MediaPattern(keywords), n).ok
  IN  IF is(<< "image", "imagen", "foto", "photo", "media" >>) THEN "image"
      ELSE IF is(<< "video", "vídeo" >>) THEN "video"
      ELSE IF is(<< "audio" >>) THEN "audio"
      ELSE IF is(<< "sticker" >>) THEN "sticker"
      ELSE IF is(<< "gif" >>) THEN "gif"
      ELSE IF is(<< "document", "documento" >>) THEN "document"
      ELSE IF is(<< "contact" >>) THEN "contact"
      ELSE IF re_match(LocationPattern, n).ok THEN "location"
      ELSE IF HasUrl(message) THEN "link"
      ELSE "text"

\* parser.py:286-302
MEDIA_KEYWORDS ==
  [k \in {"video", "vídeo", "image", "imagen", "foto", "photo", "audio",
          "sticker", "gif", "document", "documento", "contact", "media",
          "location", "ubicación"} |->
     CASE k \in {"video", "vídeo"} -> "video"
       [] k \in {"image", "imagen", "foto", "photo", "media"} -> "image"
       [] k \in {"document", "documento"} -> "document"
       [] k \in {"location", "ubicación"} -> "location"
       [] OTHER -> k]

\* parser.py:314-319: the message without the direction marks and the spaces
\* around it, and without the angle brackets around it if it has both
clean_msg(message) ==
  LET stripped == Strip(RStripChars(LStripChars(message, DirectionMarks),
                                    DirectionMarks))
  IN  IF StartsAt(stripped, 1, "<") /\ StartsAt(stripped, Len(stripped), ">")
      THEN Strip(SubSeq(stripped, 2, Len(stripped) - 1))
      ELSE stripped

\* str.split(): the runs of characters that are no whitespace
SplitWords(s) ==
  LET starts == {i \in 1..Len(s) : /\ Ch(s, i) \notin SpaceChars
                                   /\ (i = 1 \/ Ch(s, i - 1) \in SpaceChars)}
      ends   == {i \in 1..Len(s) : /\ Ch(s, i) \notin SpaceChars
                                   /\ (i = Len(s) \/ Ch(s, i + 1) \in SpaceChars)}
      nth(set, k) == CHOOSE i \in set : Cardinality({j \in set : j < i}) = k - 1
  IN  [k \in 1..Cardinality(starts) |-> SubSeq(s, nth(starts, k), nth(ends, k))]

\* parser.py:305-334
_classify_message_type(message) ==
  LET words == SplitWords(ToLower(clean_msg(message)))
  IN  IF HasUrl(message) THEN "link"
      ELSE IF Len(words) \in 1..3 /\ words[1] \in DOMAIN MEDIA_KEYWORDS
           THEN MEDIA_KEYWORDS[words[1]]
           ELSE "text"

(***************************************************************************)
(* Rows, sorting, filters and metadata.                                    *)
(***************************************************************************)
\* parser.py:438-497: the row of the table made from one message dict
Row(msg) ==
  [timestamp     |-> msg.timestamp,
   name          |-> CleanName(msg.name),
   name_original |-> msg.name,
   message       |-> msg.message,
   message_type  |-> MessageType(msg.message)]

IsSortedByTimestamp(df) ==
  \A i \in 1..(Len(df) - 1) :
     DateLE(df[i].timestamp, df[i + 1].timestamp)

\* a variant of SortOutcomes without the sort: the rows in append order
AppendOrder(rows) == {rows}

\* the orders of the rows that df.sort("timestamp") can return: sort() does not
\* maintain the order of equal keys (maintain_order defaults to False)
SortOutcomes(rows) ==
  LET n     == Len(rows)
      perms == {p \in [1..n -> 1..n] : \A i, j \in 1..n : i # j => p[i] # p[j]}
  IN  {df \in {[i \in 1..n |-> rows[p[i]]] : p \in perms} : IsSortedByTimestamp(df)}

\* parser.py:515-530
system_patterns ==
  << "añadió a", "added", "removed", "eliminó a", "left", "salió",
     "changed the subject", "cambió el asunto", "changed this group",
     "cambió el ícono", "created group", "creó el grupo",
     "Messages and calls are end-to-end encrypted",
     "Los mensajes y las llamadas están cifrados" >>

\* Expr.str.contains("|".join(system_patterns), literal=False)
ContainsSystemPattern(message) ==
  \E k \in 1..Len(system_patterns) : Contains(message, system_patterns[k])

filter_system_messages(df) ==
  SelectSeq(df, LAMBDA row : ~ContainsSystemPattern(row.message))

\* parser.py:547
bot_names == << "Meta AI", "meta ai" >>

\* a variant of filter_bot_users that compares the name as written in the export
filter_bot_users_by_original_name(df) ==
  SelectSeq(df, LAMBDA row : ToLower(row.name_original) \notin {"meta ai"})

\* a variant of filter_bot_users that leaves the lowercased name in the rows
\* it keeps
filter_bot_users_lowercasing(df) ==
  LET kept == SelectSeq(df, LAMBDA row : ToLower(row.name) \notin {"meta ai"})
  IN  [i \in 1..Len(kept) |-> [kept[i] EXCEPT !.name = ToLower(kept[i].name)]]

filter_bot_users(df) ==
  LET bot_names_lower == {ToLower(bot_names[k]) : k \in 1..Len(bot_names)}
  IN  SelectSeq(df, LAMBDA row : ToLower(row.name) \notin bot_names_lower)

\* parser.py:615
filter_year(df, year_filter) ==
  SelectSeq(df, LAMBDA row : row.timestamp.y = year_filter)

NamesOf(df) == {df[i].name : i \in 1..Len(df)}

\* df.group_by("name").len(): the row count of one name
CountOf(df, name) == Cardinality({i \in 1..Len(df) : df[i].name = name})

\* a variant of filter_min_messages that needs more than min_messages rows
filter_more_than_min_messages(df, min_messages) ==
  LET valid_users == {u \in NamesOf(df) : CountOf(df, u) > min_messages}
  IN  SelectSeq(df, LAMBDA row : row.name \in valid_users)

\* parser.py:618-623
filter_min_messages(df, min_messages) ==
  LET valid_users == {u \in NamesOf(df) : CountOf(df, u) >= min_messages}
  IN  SelectSeq(df, LAMBDA row : row.name \in valid_users)

Alphabet == "ABCDEFGHIJKLMNOPQRSTUVWXYZ"

IndexIn(s, c) == CHOOSE i \in 1..Len(s) : Ch(s, i) = c

\* ord(c), for the characters a cleaned name can hold (\w and \s)
Ord(c) ==
  CASE c = "\t" -> 9 [] c = "\n" -> 10 [] c = "\r" -> 13 [] c = " " -> 32
    [] c \in DigitChars -> 48 + DigitVal[c]
    [] c \in UpperChars -> 64 + IndexIn(Alphabet, c)
    [] c = "_" -> 95
    [] c \in LowerChars -> 96 + IndexIn(ToLower(Alphabet), c)

\* a < b on str: by code point at the first difference, a proper prefix first
StrLess(a, b) ==
  LET diff == {i \in 1..Len(a) : i > Len(b) \/ Ch(a, i) # Ch(b, i)}
  IN  IF diff = {} THEN Len(a) < Len(b)
      ELSE LET i == CHOOSE k \in diff : \A l \in diff : k <= l
           IN  i <= Len(b) /\ Ord(Ch(a, i)) < Ord(Ch(b, i))

RECURSIVE SortedList(_)
\* sorted(names) of a set of distinct strings
SortedList(names) ==
  IF names = {} THEN << >>
  ELSE LET least == CHOOSE a \in names : \A b \in names \ {a} : StrLess(a, b)
       IN  << least >> \o SortedList(names \ {least})

\* a variant of MinTimestamp after the builtin min(), which raises ValueError
\* on an empty sequence
BuiltinMin(df) ==
  IF Len(df) = 0 THEN [raised |-> "ValueError"]
  ELSE df[CHOOSE i \in 1..Len(df) :
            \A j \in 1..Len(df) : DateLE(df[i].timestamp, df[j].timestamp)
         ].timestamp

\* Series.min() / Series.max() of the timestamp column, NoDate (None) when empty
MinTimestamp(df) ==
  IF Len(df) = 0 THEN NoDate
  ELSE df[CHOOSE i \in 1..Len(df) :
            \A j \in 1..Len(df) : DateLE(df[i].timestamp, df[j].timestamp)
         ].timestamp

MaxTimestamp(df) ==
  IF Len(df) = 0 THEN NoDate
  ELSE df[CHOOSE i \in 1..Len(df) :
            \A j \in 1..Len(df) : DateLE(df[j].timestamp, df[i].timestamp)
         ].timestamp

\* a variant of get_chat_metadata that counts the members by rows, not by
\* distinct names
get_chat_metadata_members_by_rows(df) ==
  [total_messages   |-> Len(df),
   total_members    |-> Len(df),
   date_range_start |-> MinTimestamp(df),
   date_range_end   |-> MaxTimestamp(df),
   member_names     |-> SortedList(NamesOf(df))]

\* parser.py:570-577 (the filename field is left out)
get_chat_metadata(df) ==
  [total_messages   |-> Len(df),
   total_members    |-> Cardinality(NamesOf(df)),
   date_range_start |-> MinTimestamp(df),
   date_range_end   |-> MaxTimestamp(df),
   member_names     |-> SortedList(NamesOf(df))]

(***************************************************************************)
(* The inputs: raw texts of at most MaxLines lines over a corpus of lines  *)
(* of both export families with day-first, month-first and ambiguous       *)
(* dates, unparseable headers, continuation lines, bot authors, system     *)
(* phrases, media placeholders and links.                                  *)
(***************************************************************************)
Corpus ==
  { "13/01/24, 10:00 - Al: hi",
    "01/13/24, 10:00 - Bo: image https://a.b",
    "02/03/23, 09:00 - Bo: Added Al",
    "[02/03/24, 09:00:00] ~Meta AI: left",
    "[01/02/24, 08:00:00] Al left",
    "[soon] Al: hi",
    "see https://a.b",
    "" }

RECURSIVE Join(_)
\* "\n".join(ls)
Join(ls) ==
  IF Len(ls) = 1 THEN ls[1] ELSE ls[1] \o "\n" \o Join(Tail(ls))

Texts == {Join(ls) : ls \in UNION {[1..n -> Corpus] : n \in 1..MaxLines}}

\* the values of year_filter (0 for None: both skip the filter) and min_messages
YearFilters == {0, 2024}

MinMessages == {1, 2}

(***************************************************************************)
(* load_chat_file.  The file system holds, at file_path, nothing or a     *)
(* file with a suffix; a .zip archive has members, a .txt file has bytes. *)
(* Bytes are kept as the text each codec decodes them to.                 *)
(***************************************************************************)
\* bytes that the utf-8 codec rejects
Undecodable == "UnicodeDecodeError"

\* the bytes of a text that holds ASCII characters only
AsciiBytes(text) == [utf8 |-> text, latin1 |-> text]

\* bytes that are not valid utf-8 and that latin-1 decodes to text
Latin1Bytes(text) == [utf8 |-> Undecodable, latin1 |-> text]

NoBytes == AsciiBytes("")

\* parser.py:162-168, 175-179: the first codec of utf-8, utf-8-sig, latin-1,
\* cp1252 that decodes the bytes; utf-8-sig rejects what utf-8 rejects and
\* latin-1 rejects nothing
Decode(bytes) ==
  IF bytes.utf8 # Undecodable THEN bytes.utf8 ELSE bytes.latin1

\* a .txt file that exists and holds the text
TextFile(text) ==
  [exists |-> TRUE, suffix |-> ".txt", bytes |-> AsciiBytes(text),
   members |-> << >>]

\* parser.py:147-170
_load_from_zip(zip_path) ==
  LET named == SelectSeq(zip_path.members,
                 LAMBDA f : EndsWith(f.name, ".txt")
                             /\ Contains(ToLower(f.name), "chat"))
      chat_files == IF named # << >> THEN named
                    ELSE SelectSeq(zip_path.members,
                           LAMBDA f : EndsWith(f.name, ".txt"))
  IN  IF chat_files = << >>
      THEN [raised |-> "ValueError: No chat text file found in the zip archive",
            text |-> None]
      ELSE [raised |-> None, text |-> Decode(chat_files[1].bytes)]

\* parser.py:173-181
_load_from_txt(txt_path) == [raised |-> None, text |-> Decode(txt_path.bytes)]

\* a variant of load_chat_file that looks at the suffix before it looks for
\* the file
load_chat_file_suffix_first(file_path) ==
  IF ToLower(file_path.suffix) \notin {".zip", ".txt"}
  THEN [raised |-> "ValueError: Unsupported file format", text |-> None]
  ELSE IF ~file_path.exists
  THEN [raised |-> "FileNotFoundError", text |-> None]
  ELSE IF ToLower(file_path.suffix) = ".zip" THEN _load_from_zip(file_path)
  ELSE _load_from_txt(file_path)

\* parser.py:124-144
load_chat_file(file_path) ==
  IF ~file_path.exists
  THEN [raised |-> "FileNotFoundError", text |-> None]
  ELSE IF ToLower(file_path.suffix) = ".zip" THEN _load_from_zip(file_path)
  ELSE IF ToLower(file_path.suffix) = ".txt" THEN _load_from_txt(file_path)
  ELSE [raised |-> "ValueError: Unsupported file format", text |-> None]

(***************************************************************************)
(* The state.                                                              *)
(***************************************************************************)
VARIABLES
  raw_text,         \* parse_chat's argument
  pc,               \* "load", "begin", "segment", "raised", "parsed",
                    \* "exported", or the exception load_chat_file raised
  date_order,       \* _detect_date_order(raw_text)
  pattern_idx,      \* the pattern family of the pass, 1-based
  lines,            \* raw_text.split("\n")
  next_line,        \* the index in lines of the line the loop reads next
  heap,             \* the message dicts created in this pass, by identity
  current_message,  \* the identity of the open message dict, 0 for None
  messages,         \* the list `messages`: identities of dicts, in append order
  cached_format,    \* the content of the cell cached_format[0]
  df,               \* the table
  metadata,         \* the ChatMetadata returned, None before
  filter_system,    \* the arguments of parse_whatsapp_export
  year_filter,
  min_messages,
  parsed_df,        \* history: the table as parse_chat returned it
  calls,            \* history: the _parse_timestamp calls of this pass
  earlier,          \* history: the outcomes of the calls made earlier in
                    \* the same process
  file              \* what the file system holds at file_path

vars == << raw_text, pc, date_order, pattern_idx, lines, next_line, heap,
           current_message, messages, cached_format, df, metadata,
           filter_system, year_filter, min_messages, parsed_df, calls,
           earlier, file >>

args == << filter_system, year_filter, min_messages >>

Init ==
  /\ raw_text \in Texts
  /\ pc = "begin"
  /\ date_order = None
  /\ pattern_idx = 1
  /\ lines = << >>
  /\ next_line = 1
  /\ heap = << >>
  /\ current_message = 0
  /\ messages = << >>
  /\ cached_format = None
  /\ df = << >>
  /\ metadata = None
  /\ filter_system = TRUE
  /\ year_filter = 0
  /\ min_messages = 1
  /\ parsed_df = << >>
  /\ calls = << >>
  /\ earlier = {}
  /\ file = TextFile(raw_text)

(***************************************************************************)
(* parse_chat.                                                             *)
(***************************************************************************)
\* parser.py:347-380: normalise the line ends, detect the date order, start
\* the pass of the first pattern family
\* a variant of ParseChatBegin whose first pass starts with the cell
\* cached_format as the call before left it
ParseChatBeginKeepingCache ==
  /\ pc = "begin"
  /\ LET text == ReplaceCRLF(raw_text)
     IN  /\ date_order' = _detect_date_order(text)
         /\ lines' = SplitLines(text)
  /\ messages' = << >>
  /\ heap' = << >>
  /\ calls' = << >>
  /\ pattern_idx' = 1
  /\ next_line' = 1
  /\ current_message' = 0
  /\ pc' = "segment"
  /\ UNCHANGED << raw_text, earlier, file, cached_format, df, metadata, args,
                  parsed_df >>

ParseChatBegin ==
  /\ pc = "begin"
  /\ LET text == ReplaceCRLF(raw_text)
     IN  /\ date_order' = _detect_date_order(text)
         /\ lines' = SplitLines(text)
  /\ messages' = << >>
  /\ heap' = << >>
  /\ calls' = << >>
  /\ pattern_idx' = 1
  /\ next_line' = 1
  /\ current_message' = 0
  /\ cached_format' = None
  /\ pc' = "segment"
  /\ UNCHANGED << raw_text, earlier, file, df, metadata, args, parsed_df >>

\* a variant of AppendCurrent that forgets the open message
ForgetCurrent == messages

\* a variant of AppendCurrent that emits an open message only if it has a body
AppendCurrentWithBody ==
  IF current_message # 0 /\ heap[current_message].message # ""
  THEN Append(messages, current_message)
  ELSE messages

\* the list `messages` after `if current_message: messages.append(current_message)`
AppendCurrent == IF current_message # 0 THEN Append(messages, current_message)
                 ELSE messages

\* a variant of Continuation that skips the lines that are empty once stripped
ContinuationOfNonEmpty(line) ==
  IF current_message = 0 \/ Strip(line) = "" THEN heap
  ELSE [heap EXCEPT ![current_message].message = @ \o "\n" \o Strip(line)]

\* a variant of Continuation that appends the line as it is written
ContinuationUntrimmed(line) ==
  IF current_message = 0 THEN heap
  ELSE [heap EXCEPT ![current_message].message = @ \o "\n" \o line]

\* parser.py:418-422: if current_message:
\*     current_message["message"] += "\n" + line.strip()
Continuation(line) ==
  IF current_message = 0 THEN heap
  ELSE [heap EXCEPT ![current_message].message = @ \o "\n" \o Strip(line)]

\* parser.py:384-405: what the loop finds on one line: whether a pattern of
\* the family matches it, the groups of the match and the parse of the
\* first group
LineMatch(line) ==
  LET user      == re_match(MESSAGE_PATTERNS[pattern_idx], line)
      is_system == ~user.ok /\ pattern_idx <= Len(SYSTEM_MESSAGE_PATTERNS)
      match     == IF is_system
                   THEN re_match(SYSTEM_MESSAGE_PATTERNS[pattern_idx], line)
                   ELSE user
      timestamp_str == Group(line, match, 1)
  IN  IF match.ok
      THEN [ok |-> TRUE, is_system |-> is_system,
            timestamp_str |-> timestamp_str,
            second |-> Group(line, match, 2),
            third  |-> IF is_system THEN "" ELSE Group(line, match, 3),
            parse  |-> _parse_timestamp(timestamp_str,
                         date_formats_to_use(date_order), cached_format)]
      ELSE [ok |-> FALSE]

\* a variant of ProcessLine that takes the author of a system line from the
\* line, as it does for a user line
ProcessLineWithoutSentinel ==
  /\ pc = "segment"
  /\ next_line <= Len(lines)
  /\ \E line \in {LStripChars(lines[next_line], DirectionMarks)} :
     \E match \in {LineMatch(line)} :
       LET name    == match.second
           message == IF match.is_system THEN match.second ELSE match.third
           parse   == match.parse
       IN  IF match.ok
           THEN /\ messages' = AppendCurrent
                /\ cached_format' = parse.cache
                /\ calls' = Append(calls, [token |-> match.timestamp_str,
                                           result |-> parse.result])
                /\ IF parse.result # NoDate
                   THEN /\ heap' = Append(heap, [timestamp |-> parse.result,
                                                 name      |-> Strip(name),
                                                 message   |-> Strip(message)])
                        /\ current_message' = Len(heap) + 1
                   ELSE /\ heap' = Continuation(line)
                        /\ UNCHANGED current_message
           ELSE /\ heap' = Continuation(line)
                /\ UNCHANGED << messages, cached_format, current_message, calls >>
  /\ next_line' = next_line + 1
  /\ UNCHANGED << raw_text, earlier, file, pc, date_order, pattern_idx, lines, df, metadata,
                  args, parsed_df >>

\* parser.py:382-422: one iteration of `for line in lines`; the line is
\* matched once
ProcessLine ==
  /\ pc = "segment"
  /\ next_line <= Len(lines)
  /\ \E line \in {LStripChars(lines[next_line], DirectionMarks)} :
     \E match \in {LineMatch(line)} :
       LET name    == IF match.is_system THEN "System" ELSE match.second
           message == IF match.is_system THEN match.second ELSE match.third
           parse   == match.parse
       IN  IF match.ok
           THEN /\ messages' = AppendCurrent
                /\ cached_format' = parse.cache
                /\ calls' = Append(calls, [token |-> match.timestamp_str,
                                           result |-> parse.result])
                /\ IF parse.result # NoDate
                   THEN /\ heap' = Append(heap, [timestamp |-> parse.result,
                                                 name      |-> Strip(name),
                                                 message   |-> Strip(message)])
                        /\ current_message' = Len(heap) + 1
                   ELSE /\ heap' = Continuation(line)
                        /\ UNCHANGED current_message
           ELSE /\ heap' = Continuation(line)
                /\ UNCHANGED << messages, cached_format, current_message, calls >>
  /\ next_line' = next_line + 1
  /\ UNCHANGED << raw_text, earlier, file, pc, date_order, pattern_idx, lines, df, metadata,
                  args, parsed_df >>

\* a variant of NextPattern that goes on to the next family whatever the
\* pass found
NextPatternWhateverFound ==
  /\ pc = "segment"
  /\ next_line > Len(lines)
  /\ pattern_idx < Len(MESSAGE_PATTERNS)
  /\ pattern_idx' = pattern_idx + 1
  /\ next_line' = 1
  /\ current_message' = 0
  /\ cached_format' = None
  /\ heap' = << >>
  /\ messages' = << >>
  /\ calls' = << >>
  /\ UNCHANGED << raw_text, earlier, file, pc, date_order, lines, df, metadata, args,
                  parsed_df >>

\* parser.py:424-430 and 374-380: the pass found no message and another
\* pattern family is left: start its pass
NextPattern ==
  /\ pc = "segment"
  /\ next_line > Len(lines)
  /\ AppendCurrent = << >>
  /\ pattern_idx < Len(MESSAGE_PATTERNS)
  /\ pattern_idx' = pattern_idx + 1
  /\ next_line' = 1
  /\ current_message' = 0
  /\ cached_format' = None
  /\ heap' = << >>
  /\ calls' = << >>
  /\ UNCHANGED << raw_text, earlier, file, pc, date_order, lines, messages, df, metadata, args,
                  parsed_df >>

\* parser.py:424-435: no pattern family found a message: raise ValueError
RaiseNoMessages ==
  /\ pc = "segment"
  /\ next_line > Len(lines)
  /\ AppendCurrent = << >>
  /\ pattern_idx = Len(MESSAGE_PATTERNS)
  /\ pc' = "raised"
  /\ UNCHANGED << raw_text, earlier, file, date_order, pattern_idx, lines, next_line, heap,
                  current_message, messages, cached_format, df, metadata, args,
                  parsed_df, calls >>

\* the rows of pl.DataFrame(messages) with the cleaned name and the type
BuildRows(msgs) == [i \in 1..Len(msgs) |-> Row(heap[msgs[i]])]

\* parser.py:424-430 and 437-502: the pass found messages: emit the open
\* message, build the table, sort it and return it
ParseChatReturn ==
  /\ pc = "segment"
  /\ next_line > Len(lines)
  /\ AppendCurrent # << >>
  /\ messages' = AppendCurrent
  /\ df' \in SortOutcomes(BuildRows(AppendCurrent))
  /\ parsed_df' = df'
  /\ pc' = "parsed"
  /\ UNCHANGED << raw_text, earlier, file, date_order, pattern_idx, lines, next_line, heap,
                  current_message, cached_format, metadata, args, calls >>

(***************************************************************************)
(* parse_whatsapp_export, after parse_chat returned.                       *)
(***************************************************************************)
\* parser.py:606-623: the filters, in their order
ApplyFilters(table, fs, yf, mm) ==
  LET a == IF fs THEN filter_system_messages(table) ELSE table
      b == filter_bot_users(a)
      c == IF yf # 0 THEN filter_year(b, yf) ELSE b
  IN  IF mm > 1 THEN filter_min_messages(c, mm) ELSE c

\* parser.py:606-628 with the arguments fs, yf and mm
Export(fs, yf, mm) ==
  /\ pc = "parsed"
  /\ filter_system' = fs
  /\ year_filter' = yf
  /\ min_messages' = mm
  /\ df' = ApplyFilters(df, fs, yf, mm)
  /\ metadata' = get_chat_metadata(df')
  /\ pc' = "exported"
  /\ UNCHANGED << raw_text, earlier, file, date_order, pattern_idx, lines, next_line, heap,
                  current_message, messages, cached_format, parsed_df, calls >>

\* the arguments are drawn where the code first reads them
ExportReturn ==
  \E fs \in BOOLEAN, yf \in YearFilters, mm \in MinMessages : Export(fs, yf, mm)

Next ==
  \/ ParseChatBegin
  \/ ProcessLine
  \/ NextPattern
  \/ RaiseNoMessages
  \/ ParseChatReturn
  \/ ExportReturn

Spec == Init /\ [][Next]_vars

(***************************************************************************)
(* Specifications over other texts.  Each runs the same actions from the   *)
(* state parse_chat is entered in, on the texts of one family of inputs.   *)
(***************************************************************************)
\* the state at the entry of parse_chat, whatever the text
Entry ==
  /\ pc = "begin"
  /\ date_order = None
  /\ pattern_idx = 1
  /\ lines = << >>
  /\ next_line = 1
  /\ heap = << >>
  /\ current_message = 0
  /\ messages = << >>
  /\ cached_format = None
  /\ df = << >>
  /\ metadata = None
  /\ filter_system = TRUE
  /\ year_filter = 0
  /\ min_messages = 1
  /\ parsed_df = << >>
  /\ calls = << >>
  /\ earlier = {}
  /\ file = TextFile(raw_text)

\* the texts of n lines over a set of lines, for n up to max
TextsOver(lineset, max) ==
  {Join(ls) : ls \in UNION {[1..n -> lineset] : n \in 1..max}}

\* the most dated lines in a text of DateTexts
MaxDates == 2

\* lines headed by a date c1 SEP c2 SEP 23 with components on both sides of 12
DateLines ==
  {c1 \o sep \o c2 \o sep \o "23, 10:00 - Al: hi" :
     c1 \in {"5", "12", "13"}, c2 \in {"12", "31"}, sep \in {"/", "."}}

DateTexts == {""} \cup TextsOver(DateLines, MaxDates)

DetectInit == raw_text \in DateTexts /\ Entry

DetectSpec == DetectInit /\ [][Next]_vars

\* the most lines in a text of SegmentTexts
MaxSegmentLines == 3

\* dashed headers with and without a body, a bracketed header, a bracketed
\* header whose timestamp does not parse, and two lines that are no header,
\* one of them with spaces around it
SegmentLines ==
  {"13/01/24, 10:00 - Al: hi", "13/01/24, 10:01 - Bo:",
   "[13/01/24, 10:02:00] Cy: yo", "[soon] Cy: yo", "  line two  ", "three"}

SegmentTexts == TextsOver(SegmentLines, MaxSegmentLines)

SegmentInit == raw_text \in SegmentTexts /\ Entry

SegmentSpec == SegmentInit /\ [][Next]_vars

\* the most words in a body of ClassifyTexts
MaxWords == 4

\* the first words of the bodies: the media keywords, three of them also with
\* capitals, and a word that is no keyword
FirstWords ==
  {"video", "vídeo", "image", "imagen", "foto", "photo", "audio", "sticker",
   "gif", "document", "documento", "contact", "media", "Video", "Sticker",
   "GIF", "hello"}

\* what stands before and after the words of a body: nothing, angle brackets,
\* angle brackets with a space before the closing one, a direction mark
Wrappers ==
  {<< "", "" >>, << "<", ">" >>, << "<", " >" >>, << LRM, "" >>}

RECURSIVE Omitted(_)
\* n more words
Omitted(n) == IF n = 0 THEN "" ELSE " omitted" \o Omitted(n - 1)

\* one dashed message for each body, and a text without a message
ClassifyTexts ==
  {"no message"} \cup
  {"13/01/24, 10:00 - Al: " \o w[1] \o first \o Omitted(n - 1) \o w[2] :
     first \in FirstWords, n \in 1..MaxWords, w \in Wrappers}

ClassifyInit == raw_text \in ClassifyTexts /\ Entry

ClassifySpec == ClassifyInit /\ [][Next]_vars

\* bodies that start with a location keyword: with and without the colon,
\* with and without angle brackets, followed by nothing, a word, a URL or
\* three words
LocationBodies ==
  {w[1] \o first \o colon \o rest \o w[2] :
     first \in {"location", "ubicación", "Location"},
     colon \in {":", ""},
     rest \in {"", " here", " https://a.b", " a b c"},
     w \in {<< "", "" >>, << "<", ">" >>}}

\* one dashed message for each body, and a text without a message
LocationTexts ==
  {"no message"} \cup {"13/01/24, 10:00 - Al: " \o body : body \in LocationBodies}

LocationInit == raw_text \in LocationTexts /\ Entry

LocationSpec == LocationInit /\ [][Next]_vars

\* the most lines in a text of FallbackInit
MaxFallbackLines == 2

\* headers with a 12-hour time, with 24-hour times in either date order, and
\* with a date no format accepts
FallbackLines ==
  {"12/25/23, 10:30 AM - Al: hi", "12/25/23, 15:45 - Bo: yo",
   "25/12/23, 9:05 - Al: hi", "99/99/23, 10:00 - Bo: yo"}

FallbackInit == raw_text \in TextsOver(FallbackLines, MaxFallbackLines) /\ Entry

FallbackSpec == FallbackInit /\ [][Next]_vars

\* the most lines in a text of DotTimeInit
MaxDotTimeLines == 2

\* headers whose date is written with dots, the time with dots or with
\* colons, in both families, and a line that is no header
DotTimeLines ==
  {"28.01.24, 15.30.00 - Al: hi", "28.01.24, 15:30:00 - Al: hi",
   "[28.01.2024 9.05] Bo: yo", "2024.01.28, 3.30 p.m. - Bo: yo", "hello"}

DotTimeInit == raw_text \in TextsOver(DotTimeLines, MaxDotTimeLines) /\ Entry

DotTimeSpec == DotTimeInit /\ [][Next]_vars

\* texts of both families and a text without any message
LoadedTexts ==
  {"13/01/24, 10:00 - Al: hi", "[13/01/24, 10:02:00] Bo left", "see you"}

\* the members an archive can hold: a picture, a text file named in upper
\* case, notes, and chat files
Members ==
  {<< >>,
   << [name |-> "a.jpg", bytes |-> NoBytes] >>,
   << [name |-> "_chat.TXT", bytes |-> AsciiBytes("13/01/24, 10:00 - Al: hi")] >>,
   << [name |-> "notes.txt", bytes |-> AsciiBytes("see you")] >>,
   << [name |-> "notes.txt", bytes |-> AsciiBytes("see you")],
      [name |-> "_chat.txt", bytes |-> AsciiBytes("13/01/24, 10:00 - Al: hi")] >>,
   << [name |-> "a.jpg", bytes |-> NoBytes],
      [name |-> "WhatsApp Chat.txt",
       bytes |-> Latin1Bytes("[13/01/24, 10:02:00] Bo left")] >>}

\* what file_path can name: nothing, a file of another format, a text file,
\* an archive
Files ==
  {[exists |-> FALSE, suffix |-> s, bytes |-> NoBytes, members |-> << >>] :
      s \in {".txt", ".zip", ".pdf"}}
    \cup {[exists |-> TRUE, suffix |-> s, bytes |-> NoBytes, members |-> << >>] :
            s \in {".pdf", ""}}
    \cup {[exists |-> TRUE, suffix |-> s, bytes |-> b, members |-> << >>] :
            s \in {".txt", ".TXT"},
            b \in {AsciiBytes(x) : x \in LoadedTexts}
                    \cup {Latin1Bytes(x) : x \in LoadedTexts}}
    \cup {[exists |-> TRUE, suffix |-> s, bytes |-> NoBytes, members |-> m] :
            s \in {".zip", ".ZIP"}, m \in Members}

\* parser.py:598-601: parse_whatsapp_export loads the text, or load_chat_file
\* raises and the call ends
LoadChatFile ==
  /\ pc = "load"
  /\ LET loaded == load_chat_file(file)
     IN  IF loaded.raised # None
         THEN pc' = loaded.raised /\ UNCHANGED raw_text
         ELSE pc' = "begin" /\ raw_text' = loaded.text
  /\ UNCHANGED << earlier, file, date_order, pattern_idx, lines, next_line,
                  heap, current_message, messages, cached_format, df, metadata,
                  args, parsed_df, calls >>

LoadNext == LoadChatFile \/ Next

\* the state at the entry of parse_whatsapp_export
LoadInit ==
  /\ file \in Files
  /\ raw_text = None
  /\ pc = "load"
  /\ date_order = None
  /\ pattern_idx = 1
  /\ lines = << >>
  /\ next_line = 1
  /\ heap = << >>
  /\ current_message = 0
  /\ messages = << >>
  /\ cached_format = None
  /\ df = << >>
  /\ metadata = None
  /\ filter_system = TRUE
  /\ year_filter = 0
  /\ min_messages = 1
  /\ parsed_df = << >>
  /\ calls = << >>
  /\ earlier = {}

LoadSpec == LoadInit /\ [][LoadNext]_vars

\* the most lines in a text of SystemInit
MaxSystemLines == 2

\* user lines of both families, system lines of both families with and
\* without a phrase of system_patterns, a user line of an author called
\* System, and a system line whose date no format accepts
SystemLines ==
  {"13/01/24, 10:00 - Al: hi", "13/01/24, 10:01 - Al joined",
   "[13/01/24, 10:02:00] Bo left", "13/01/24, 10:03 - System: hi",
   "99/99/24, 10:04 - Al left", "[13/01/24, 10:05:00] Bo: yo"}

SystemInit == raw_text \in TextsOver(SystemLines, MaxSystemLines) /\ Entry

SystemSpec == SystemInit /\ [][Next]_vars

\* exports parsed one after the other in one process: two bracketed ones whose
\* dates are written month first and in an undecidable order, a dashed one,
\* and a text without a message
RepeatTexts ==
  {"[01/13/24, 08:00:00] Bo: hi", "[01/02/24, 08:00:00] Al: hi",
   "01/02/24, 10:00 - Al: hi", "see you"}

\* what a call of parse_chat on raw_text ended with: the ValueError or the
\* rows of pl.DataFrame(messages), in the order of the list
Outcome ==
  [text |-> raw_text, raised |-> pc = "raised", rows |-> BuildRows(messages)]

\* the process calls parse_chat again, on any of the texts, after a call
\* returned or raised; whatever the call left behind is still there
ParseChatAgain ==
  /\ pc \in {"raised", "parsed", "exported"}
  /\ earlier' = earlier \cup {Outcome}
  /\ raw_text' \in RepeatTexts
  /\ pc' = "begin"
  /\ UNCHANGED << date_order, pattern_idx, lines, next_line, heap,
                  current_message, messages, cached_format, df, metadata, args,
                  parsed_df, calls, file >>

RepeatNext == Next \/ ParseChatAgain

RepeatInit == raw_text \in RepeatTexts /\ Entry

RepeatSpec == RepeatInit /\ [][RepeatNext]_vars

\* the most marks before a line of MarkTexts
MaxMarks == 2

RECURSIVE MarkRunsOf(_)
\* the runs of n direction marks
MarkRunsOf(n) ==
  IF n = 0 THEN {""}
  ELSE {m \o run : m \in {LRM, RLM}, run \in MarkRunsOf(n - 1)}

\* the runs of up to MaxMarks direction marks
MarkRuns == UNION {MarkRunsOf(n) : n \in 0..MaxMarks}

RECURSIVE UnmarkedFrom(_, _)
\* the text from text[i] on without the direction marks its lines begin
\* with, where text[i] is the first character of a line
UnmarkedFrom(text, i) ==
  IF i > Len(text) THEN ""
  ELSE IF Ch(text, i) \in {LRM, RLM} THEN UnmarkedFrom(text, i + 1)
  ELSE LET ends == {k \in i..Len(text) : Ch(text, k) = "\n"}
           e    == IF ends = {} THEN Len(text)
                   ELSE CHOOSE k \in ends : \A l \in ends : k <= l
       IN  SubSeq(text, i, e) \o UnmarkedFrom(text, e + 1)

\* the export as it is without the direction marks before its lines
Unmarked(text) == UnmarkedFrom(text, 1)

\* a header of the dash family followed by a continuation line, a system
\* line of the bracket family, and a line that is no message, with runs of
\* marks before the lines
MarkTexts ==
  {p \o "13/01/24, 10:00 - Al: hi" \o "\n" \o q \o " more" : p, q \in MarkRuns}
    \cup {p \o "[13/01/24, 10:02:00] Bo left" : p \in MarkRuns}
    \cup {p \o "see you" : p \in MarkRuns}

\* the process calls parse_chat again, on the export without the marks
ParseChatUnmarked ==
  /\ pc \in {"raised", "parsed", "exported"}
  /\ Unmarked(raw_text) # raw_text
  /\ earlier' = earlier \cup {Outcome}
  /\ raw_text' = Unmarked(raw_text)
  /\ pc' = "begin"
  /\ UNCHANGED << date_order, pattern_idx, lines, next_line, heap,
                  current_message, messages, cached_format, df, metadata, args,
                  parsed_df, calls, file >>

MarkNext == Next \/ ParseChatUnmarked

MarkInit == raw_text \in MarkTexts /\ Entry

MarkSpec == MarkInit /\ [][MarkNext]_vars

\* date prefixes for which DATE_FORMATS has formats with %I and %p
TwelveHourPrefixes ==
  {"12/25/23, ", "25/12/23, ", "25.12.23, ", "2023-12-25, ", "12/25/23 "}

\* these, and a prefix for which DATE_FORMATS has 24-hour formats only
MeridiemPrefixes == TwelveHourPrefixes \cup {"25-12-23 "}

\* times of day on a 12-hour clock
TwelveHourTimes == {"3:45", "12:05", "11:30:15"}

\* these, and one that %I does not accept
MeridiemTimes == TwelveHourTimes \cup {"0:45"}

\* the spellings of the meridiem m ("A" or "P") after a time: with a space
\* and capitals, without the space, dotted, lower case without the space
Spellings(m) ==
  << " " \o m \o "M", m \o "M", " " \o LowerOf(m) \o ".m.", LowerOf(m) \o "m" >>

\* one bracketed line for each spelling of the same time after the same prefix
MeridiemText(prefix, time, m) ==
  Join([i \in 1..4 |-> "[" \o prefix \o time \o Spellings(m)[i] \o "] Al: hi"])

MeridiemTexts ==
  {MeridiemText(prefix, time, m) :
     prefix \in MeridiemPrefixes, time \in MeridiemTimes, m \in {"A", "P"}}

MeridiemInit == raw_text \in MeridiemTexts /\ Entry

MeridiemSpec == MeridiemInit /\ [][Next]_vars

(***************************************************************************)
(* The properties.                                                         *)
(***************************************************************************)
\* the timestamp token of a line that matches a start pattern (user, then
\* system) of family k
Header(k, line) ==
  LET l    == LStripChars(line, DirectionMarks)
      user == re_match(MESSAGE_PATTERNS[k], l)
      sys  == re_match(SYSTEM_MESSAGE_PATTERNS[k], l)
  IN  IF user.ok THEN [ok |-> TRUE, token |-> Group(l, user, 1)]
      ELSE IF sys.ok THEN [ok |-> TRUE, token |-> Group(l, sys, 1)]
      ELSE [ok |-> FALSE, token |-> ""]

\* line matches a start pattern of family k and its token parses on its own
StartsMessage(k, line) ==
  LET header == Header(k, line)
  IN  /\ header.ok
      /\ _parse_timestamp(header.token, date_formats_to_use(date_order),
                          NoCell).result # NoDate

\* the lines of the text that start a message under family k
Starters(k) == {i \in 1..Len(lines) : StartsMessage(k, lines[i])}

FirstStarter(k) ==
  LET starters == Starters(k)
  IN  CHOOSE i \in starters : \A j \in starters : i <= j

\* the lines of this pass that opened a message: each created one message dict
opened == Len(heap)

\* the lines a body holds besides its first: a line has no "\n" in it, and
\* folding one into a body puts one "\n" before it
FoldedInto(message) == Cardinality({i \in 1..Len(message) : Ch(message, i) = "\n"})

RECURSIVE FoldedUpTo(_)
\* the lines folded into the bodies of the first n message dicts of this pass
FoldedUpTo(n) ==
  IF n = 0 THEN 0 ELSE FoldedUpTo(n - 1) + FoldedInto(heap[n].message)

folded == FoldedUpTo(Len(heap))

\* C1: the table parse_chat returns has as many rows as there are lines that
\* matched a start pattern with a parseable timestamp, and no message is in it
\* twice: the list `messages` holds no message dict at two places.
C1_OneRowPerOpenedMessage ==
  pc = "parsed" =>
    /\ Len(parsed_df) = opened
    /\ \A i, j \in 1..Len(messages) : i # j => messages[i] # messages[j]

\* C2: the rows of the table parse_whatsapp_export returns, whatever the
\* filter arguments, are in non-decreasing timestamp order, and none has a
\* null timestamp.
C2_SortedAndNoNullTimestamp ==
  pc = "exported" =>
    /\ \A i, j \in 1..Len(df) : i < j => DateLE(df[i].timestamp, df[j].timestamp)
    /\ \A i \in 1..Len(df) : df[i].timestamp # NoDate

\* C2, its case: an export of two rows or more whose messages were appended
\* in another order than that of their timestamps.
C2_Witness ==
  /\ pc = "exported"
  /\ Len(df) >= 2
  /\ df[1].timestamp # df[Len(df)].timestamp
  /\ ~DateLE(heap[messages[1]].timestamp, heap[messages[Len(messages)]].timestamp)

\* C3, as stated: for a text that yields a message, the lines folded into a
\* body plus the lines that open a message are as many as the non-empty lines
\* of the text.
C3_EveryNonEmptyLineCounted ==
  pc = "parsed" =>
    folded + opened = Cardinality({i \in 1..Len(lines) : Strip(lines[i]) # ""})

\* C3, amended: for a text that yields a message, the lines folded into a body
\* plus the lines that open a message are as many as the lines, empty or not,
\* from the first line that opens a message to the end of the text; the lines
\* before it are dropped.
C3_LinesFromFirstOpenerCounted ==
  pc = "parsed" =>
    folded + opened = Len(lines) - FirstStarter(pattern_idx) + 1

\* C3, its case: a parsed text with a line dropped before the first opening
\* line and an empty line folded after it.
C3_Witness ==
  /\ pc = "parsed"
  /\ FirstStarter(pattern_idx) > 1
  /\ Strip(lines[1]) # ""
  /\ folded >= 1
  /\ \E i \in 1..Len(lines) : i > FirstStarter(pattern_idx) /\ lines[i] = ""

\* C4: every timestamp a pass of parse_chat got from _parse_timestamp with the
\* cache cell threaded through its calls is the timestamp _parse_timestamp
\* returns for the same token and candidate list without a cache.
C4_CacheDoesNotChangeResults ==
  pc = "parsed" =>
    \A i \in 1..Len(calls) :
       calls[i].result = _parse_timestamp(calls[i].token,
                           date_formats_to_use(date_order), NoCell).result

\* C5: every row of the table parse_chat returns whose body contains http://
\* or https:// has the kind link.
C5_UrlBodiesAreLinks ==
  pc = "parsed" =>
    \A i \in 1..Len(parsed_df) :
       HasUrl(parsed_df[i].message) => parsed_df[i].message_type = "link"

\* C6: after parse_whatsapp_export with filter_system=True no retained body
\* contains a system phrase, compared without regard to case.
C6_NoSystemPhraseIgnoringCase ==
  pc = "exported" /\ filter_system =>
    \A i \in 1..Len(df), k \in 1..Len(system_patterns) :
       ~Contains(ToLower(df[i].message), ToLower(system_patterns[k]))

\* C7: after parse_whatsapp_export, whatever the arguments, no retained row's
\* name is 'meta ai' without regard to case; and with the other filters off,
\* the rows retained are exactly the parsed rows whose cleaned name does not
\* lower-case to 'meta ai', in their order.
C7_BotRowsRemovedOnly ==
  pc = "exported" =>
    /\ \A i \in 1..Len(df) : ToLower(df[i].name) # "meta ai"
    /\ (~filter_system /\ year_filter = 0 /\ min_messages = 1) =>
         df = SelectSeq(parsed_df, LAMBDA row : ToLower(row.name) # "meta ai")

\* C7, its case: an export with the other filters off that removed a row of
\* the bot, written '~Meta AI' in the text, and kept a row of another author.
C7_Witness ==
  /\ pc = "exported"
  /\ ~filter_system /\ year_filter = 0 /\ min_messages = 1
  /\ \E i \in 1..Len(parsed_df) :
       parsed_df[i].name = "Meta AI" /\ parsed_df[i].name_original = "~Meta AI"
  /\ Len(df) >= 1

\* C8: the metadata parse_whatsapp_export returns counts the rows of the table
\* it returns and their distinct names, lists exactly those names in ascending
\* order, and gives the least and the greatest timestamp of the table as the
\* date range (None for both when the table is empty).
C8_MetadataMatchesTable ==
  pc = "exported" =>
    LET names == {df[i].name : i \in 1..Len(df)}
        times == {df[i].timestamp : i \in 1..Len(df)}
        listed == metadata.member_names
    IN  /\ metadata.total_messages = Len(df)
        /\ metadata.total_members = Cardinality(names)
        /\ Len(listed) = Cardinality(names)
        /\ {listed[i] : i \in 1..Len(listed)} = names
        /\ \A i \in 1..(Len(listed) - 1) : StrLess(listed[i], listed[i + 1])
        /\ IF times = {}
           THEN metadata.date_range_start = NoDate /\ metadata.date_range_end = NoDate
           ELSE /\ metadata.date_range_start \in times
                /\ metadata.date_range_end \in times
                /\ \A t \in times : /\ DateLE(metadata.date_range_start, t)
                                    /\ DateLE(t, metadata.date_range_end)

\* C8, its case: an export of three rows of two authors over two timestamps.
C8_Witness ==
  /\ pc = "exported"
  /\ Len(df) = 3
  /\ metadata.total_members = 2
  /\ metadata.date_range_start # metadata.date_range_end

\* C9: parse_chat raises exactly when no line starts a message under either
\* pattern family; it returns the table of the first family, bracketed then
\* dash, under which a line starts a message, and that table has a row.
C9_RaisesIffNoMessages ==
  /\ pc = "raised" =>
       \A k \in 1..Len(MESSAGE_PATTERNS) : Starters(k) = {}
  /\ pc = "parsed" =>
       /\ Len(parsed_df) >= 1
       /\ Starters(pattern_idx) # {}
       /\ \A k \in 1..(pattern_idx - 1) : Starters(k) = {}

\* C9, its case: parse_chat raised on a text with a line that matches a start
\* pattern and whose timestamp does not parse.
C9_Witness ==
  /\ pc = "raised"
  /\ \E i \in 1..Len(lines) : Header(1, lines[i]).ok

\* C10: after parse_chat succeeded, the filters and the metadata computation
\* complete for every value of the arguments, and when they remove every row
\* the call returns the empty table with the metadata of the empty table:
\* total_messages 0, no members, no date range.
C10_FiltersNeverRaise ==
  /\ pc = "parsed" =>
       \A fs \in BOOLEAN, yf \in YearFilters, mm \in MinMessages :
          ENABLED Export(fs, yf, mm)
  /\ pc = "exported" /\ df = << >> =>
       metadata = [total_messages   |-> 0,
                   total_members    |-> 0,
                   date_range_start |-> NoDate,
                   date_range_end   |-> NoDate,
                   member_names     |-> << >>]

\* C10, its case: an export whose filters removed every row of a parsed table.
C10_Witness ==
  /\ pc = "exported"
  /\ Len(parsed_df) >= 1
  /\ df = << >>
  /\ metadata.total_messages = 0
\* the length of the run of digits of s that starts at s[p]
DigitRun(s, p) ==
  LET stops == {k \in p..(Len(s) + 1) : k > Len(s) \/ Ch(s, k) \notin DigitChars}
  IN  (CHOOSE k \in stops : \A l \in stops : k <= l) - p

\* the first two components of the date that heads a line of DateLines
HeadDate(line) ==
  LET n1 == DigitRun(line, 1)
      n2 == DigitRun(line, n1 + 2)
  IN  [c1 |-> ToInt(SubSeq(line, 1, n1)),
       c2 |-> ToInt(SubSeq(line, n1 + 2, n1 + 1 + n2))]

\* the dates of the text of a state of DetectSpec: every line but the empty
\* one is headed by its only date
HeadDates == {HeadDate(lines[i]) : i \in {k \in 1..Len(lines) : lines[k] # ""}}

\* C11: _detect_date_order returns DD/MM iff some first component is over 12
\* and no second one is, MM/DD iff some second component is over 12 and no
\* first one is, and ambiguous in every other case, the one with both a first
\* and a second component over 12 included.
C11_DateOrderByComponents ==
  pc # "begin" =>
    LET first_over  == \E d \in HeadDates : d.c1 > 12
        second_over == \E d \in HeadDates : d.c2 > 12
    IN  /\ date_order \in {"DD/MM", "MM/DD", "ambiguous"}
        /\ date_order = "DD/MM" <=> (first_over /\ ~second_over)
        /\ date_order = "MM/DD" <=> (second_over /\ ~first_over)

\* C11, its case: a text with a first component over 12 on one line and a
\* second component over 12 on another, detected as ambiguous.
C11_Witness ==
  /\ pc = "segment"
  /\ date_order = "ambiguous"
  /\ \E d \in HeadDates : d.c1 > 12 /\ d.c2 <= 12
  /\ \E d \in HeadDates : d.c2 > 12 /\ d.c1 <= 12
\* the texts of MeridiemTexts with a date prefix that has 12-hour formats
\* and a time of the 12-hour clock
TwelveHourTexts ==
  {MeridiemText(prefix, time, m) :
     prefix \in TwelveHourPrefixes, time \in TwelveHourTimes, m \in {"A", "P"}}

C13_ResultIndependentOfEarlierCalls ==
  /\ pc = "segment" /\ next_line = 1 =>
        /\ cached_format = None
        /\ current_message = 0
        /\ messages = << >>
        /\ heap = << >>
  /\ pc \in {"raised", "parsed"} =>
        \A e \in earlier : e.text = raw_text => e = Outcome

\* C13, its case: a text parsed after a call on the same text and after a
\* call on an export whose dates are written month first.
C13_Witness ==
  /\ pc = "parsed"
  /\ raw_text = "[01/02/24, 08:00:00] Al: hi"
  /\ \E e \in earlier : e.text = raw_text /\ e.rows # << >>
  /\ \E e \in earlier : e.text = "[01/13/24, 08:00:00] Bo: hi" /\ e.rows # << >>
\* C14: with min_messages = m > 1 the table parse_whatsapp_export returns
\* holds, in their order, the rows of the table left by the system-phrase, bot
\* and year filters whose author has at least m rows in that table, and no
\* other row; so every author of the returned table has at least m rows there.
C14_MinMessagesKeepsAuthorsWithEnoughRows ==
  pc = "exported" /\ min_messages > 1 =>
    LET filtered == ApplyFilters(parsed_df, filter_system, year_filter, 1)
        rows(table, name) == {i \in 1..Len(table) : table[i].name = name}
    IN  /\ df = SelectSeq(filtered,
                   LAMBDA row : Cardinality(rows(filtered, row.name)) >= min_messages)
        /\ \A i \in 1..Len(df) :
              Cardinality(rows(df, df[i].name)) >= min_messages

\* C14, its case: with m = 2, an author with exactly two rows after the
\* filters was kept and an author with one row was dropped.
C14_Witness ==
  /\ pc = "exported"
  /\ min_messages = 2
  /\ Len(df) = 2
  /\ df[1].name = df[2].name
  /\ Len(ApplyFilters(parsed_df, filter_system, year_filter, 1)) = 3
\* the author and the body of the message a line opens under family k
HeaderParts(k, line) ==
  LET l    == LStripChars(line, DirectionMarks)
      user == re_match(MESSAGE_PATTERNS[k], l)
      sys  == re_match(SYSTEM_MESSAGE_PATTERNS[k], l)
  IN  IF user.ok
      THEN [name |-> Strip(Group(l, user, 2)), message |-> Strip(Group(l, user, 3))]
      ELSE [name |-> "System", message |-> Strip(Group(l, sys, 2))]

\* the first line after line i that starts a message under family k, or the
\* end of the text
NextStarterAfter(k, i) ==
  LET later == {j \in Starters(k) : j > i} \cup {Len(lines) + 1}
  IN  CHOOSE j \in later : \A l \in later : j <= l

RECURSIVE Folded(_, _)
\* the lines lo..hi, each trimmed and each after a "\n"
Folded(lo, hi) ==
  IF lo > hi THEN ""
  ELSE "\n" \o Strip(LStripChars(lines[lo], DirectionMarks)) \o Folded(lo + 1, hi)

\* a 3-line text whose first line starts a message and whose other lines
\* match no start pattern of any family, parsed
ContinuationCase ==
  /\ pc = "parsed"
  /\ Len(lines) = 3
  /\ StartsMessage(pattern_idx, lines[1])
  /\ \A k \in 1..Len(MESSAGE_PATTERNS), i \in 2..3 : ~Header(k, lines[i]).ok

\* C15, as stated: a 3-line text whose first line is a valid header and whose
\* lines 2 and 3 are continuation text gives one message whose body is
\* line 2, "\n", line 3, each trimmed.
C15_BodyIsTheContinuationLines ==
  ContinuationCase =>
    /\ Len(parsed_df) = 1
    /\ parsed_df[1].message = Strip(lines[2]) \o "\n" \o Strip(lines[3])

\* C15, amended: such a text gives one message whose body is the body of
\* the header line, then "\n" and line 2 trimmed, then "\n" and line 3
\* trimmed.
C15_BodyIsHeaderBodyThenContinuationLines ==
  ContinuationCase =>
    /\ Len(parsed_df) = 1
    /\ parsed_df[1].message =
         HeaderParts(pattern_idx, lines[1]).message
           \o "\n" \o Strip(lines[2]) \o "\n" \o Strip(lines[3])

\* C15, its case: a header with a body, then a line with spaces around it,
\* then a third line.
C15_Witness ==
  /\ ContinuationCase
  /\ HeaderParts(pattern_idx, lines[1]).message # ""
  /\ Strip(lines[2]) # lines[2]
  /\ Strip(lines[2]) # ""
  /\ Strip(lines[3]) # ""

\* the lines that start a message under the family of the pass with nothing
\* after the colon
EmptyStarters ==
  {i \in Starters(pattern_idx) : HeaderParts(pattern_idx, lines[i]).message = ""}

\* C16: a line that starts a message and has nothing after the colon gives a
\* message that is in the list `messages` and in the table, with the author
\* of the line and a body made of the empty string and of the lines folded
\* into it up to the next line that starts a message: the empty string
\* itself when that line comes next.
C16_EmptyBodyIsEmitted ==
  pc = "parsed" =>
    \A i \in EmptyStarters :
       \E j \in 1..Len(messages) :
          LET m == heap[messages[j]]
          IN  /\ m.name = HeaderParts(pattern_idx, lines[i]).name
              /\ m.message = Folded(i + 1, NextStarterAfter(pattern_idx, i) - 1)
              /\ (i + 1) \in Starters(pattern_idx) => m.message = ""
              /\ \E r \in 1..Len(parsed_df) : parsed_df[r] = Row(m)

\* C16, its case: a header with nothing after the colon, closed by the header
\* on the next line, and both messages in the table.
C16_Witness ==
  /\ pc = "parsed"
  /\ 1 \in EmptyStarters
  /\ 2 \in Starters(pattern_idx) \ EmptyStarters
  /\ Len(parsed_df) = 2
  /\ \E r \in 1..2 : parsed_df[r].message = ""
\* C17: a pass of the dash family runs only on a text in which no line starts
\* a message of the bracketed family; parse_chat returns from the pass of the
\* first family that has such a line; and the messages it returns are those
\* opened by the lines that start a message of that one family, one message
\* dict for each, with the author and the body of that line and the lines up
\* to the next such line folded into it.
C17_OneFamilyPerExport ==
  /\ pc # "begin" =>
        \A k \in 1..(pattern_idx - 1) : Starters(k) = {}
  /\ pc = "parsed" =>
        /\ Starters(pattern_idx) # {}
        /\ Len(heap) = Cardinality(Starters(pattern_idx))
        /\ \A j \in 1..Len(messages) :
              \E i \in Starters(pattern_idx) :
                 /\ heap[messages[j]].name = HeaderParts(pattern_idx, lines[i]).name
                 /\ heap[messages[j]].message =
                      HeaderParts(pattern_idx, lines[i]).message
                        \o Folded(i + 1, NextStarterAfter(pattern_idx, i) - 1)

\* C17, its case: a text with a line that starts a bracketed message and a
\* line that would start a dash message, parsed with the bracketed family.
C17_Witness ==
  /\ pc = "parsed"
  /\ pattern_idx = 1
  /\ Starters(2) # {}
  /\ Len(parsed_df) = Cardinality(Starters(1))
\* C18: the table parse_chat returns holds the rows of the list `messages`
\* in timestamp order, and rows with equal timestamps in the order in which
\* their header lines stand in the text, the order of the list.
C18_TiesKeepInputOrder ==
  pc = "parsed" =>
    LET rows == BuildRows(messages)
        n    == Len(rows)
    IN  \E p \in [1..n -> 1..n] :
           /\ \A i, j \in 1..n : i # j => p[i] # p[j]
           /\ parsed_df = [i \in 1..n |-> rows[p[i]]]
           /\ \A i, j \in 1..n :
                 i < j /\ rows[p[i]].timestamp = rows[p[j]].timestamp => p[i] < p[j]
\* the media keywords of the placeholder rule, those without a colon
PlaceholderKeywords == DOMAIN MEDIA_KEYWORDS \ {"location", "ubicación"}

\* the words of a body: in lower case, after the direction marks and the
\* angle brackets around the body are taken off
BodyWords(message) == SplitWords(ToLower(clean_msg(message)))

\* a body without a URL whose first word is a media keyword
IsPlaceholderCandidate(message) ==
  /\ ~HasUrl(message)
  /\ Len(BodyWords(message)) >= 1
  /\ BodyWords(message)[1] \in PlaceholderKeywords

\* C19: in the table parse_chat returns, a body without a URL whose first
\* word is a media keyword has the media kind of the keyword if it has exactly
\* 3 words, and the kind text if it has 4 words or more.
C19_ThreeWordsMediaFourWordsText ==
  pc = "parsed" =>
    \A r \in 1..Len(parsed_df) :
       LET body == parsed_df[r].message
       IN  IsPlaceholderCandidate(body) =>
             /\ Len(BodyWords(body)) = 3 =>
                   parsed_df[r].message_type = MEDIA_KEYWORDS[BodyWords(body)[1]]
             /\ Len(BodyWords(body)) >= 4 =>
                   parsed_df[r].message_type = "text"

\* C20: in the table parse_chat returns, a body without a URL that is one
\* word, a media keyword, with or without angle brackets around it, has the
\* media kind of the keyword, as _classify_message_type gives it.
C20_OneWordPlaceholderIsMedia ==
  pc = "parsed" =>
    \A r \in 1..Len(parsed_df) :
       LET body == parsed_df[r].message
       IN  IsPlaceholderCandidate(body) /\ Len(BodyWords(body)) = 1 =>
             /\ parsed_df[r].message_type = MEDIA_KEYWORDS[BodyWords(body)[1]]
             /\ parsed_df[r].message_type = _classify_message_type(body)

\* C21: in the table parse_chat returns, a row has the kind location only if
\* its body holds no URL, has 1 to 3 words, and starts, once cleaned, with
\* location or ubicación and a colon right after it.
C21_LocationOnlyShortColonNoUrl ==
  pc = "parsed" =>
    \A r \in 1..Len(parsed_df) :
       LET body  == parsed_df[r].message
           clean == ToLower(clean_msg(body))
       IN  parsed_df[r].message_type = "location" =>
             /\ ~HasUrl(body)
             /\ Len(BodyWords(body)) \in 1..3
             /\ StartsAt(clean, 1, "location:") \/ StartsAt(clean, 1, "ubicación:")

\* the formats of a list that start with a directive, in the order of the list
Family(formats, directive) ==
  SelectSeq(formats, LAMBDA f : StartsAt(f, 1, directive))

\* how many places of a list hold a format
Occurrences(formats, f) == Cardinality({i \in 1..Len(formats) : formats[i] = f})

\* C22: whatever date order was detected, the candidate list parse_chat
\* passes to _parse_timestamp holds every format of DATE_FORMATS as often as
\* DATE_FORMATS does and no other; its day-first, month-first and year-first
\* formats (the ISO-8601 ones among the latter) stand in the order they have
\* in DATE_FORMATS; the family of the detected order fills the front of the
\* list; and for an ambiguous order the list is DATE_FORMATS.
C22_CandidateListIsPermutation ==
  pc # "begin" =>
    LET formats == date_formats_to_use(date_order)
        front   == IF date_order = "DD/MM" THEN "%d" ELSE "%m"
    IN  /\ Len(formats) = Len(DATE_FORMATS)
        /\ \A i \in 1..Len(DATE_FORMATS) :
              Occurrences(formats, DATE_FORMATS[i])
                = Occurrences(DATE_FORMATS, DATE_FORMATS[i])
        /\ \A d \in {"%d", "%m", "%Y"} :
              Family(formats, d) = Family(DATE_FORMATS, d)
        /\ \E i \in 1..Len(formats) : StartsAt(formats[i], 1, "%Y-%m-%dT")
        /\ date_order \in {"DD/MM", "MM/DD"} =>
              \A i \in 1..Len(Family(DATE_FORMATS, front)) :
                 StartsAt(formats[i], 1, front)
        /\ date_order = "ambiguous" => formats = DATE_FORMATS

\* C22, its case: a pass on a text whose dates are month first, with a list
\* in another order than DATE_FORMATS.
C22_Witness ==
  /\ pc = "segment"
  /\ date_order = "MM/DD"
  /\ date_formats_to_use(date_order) # DATE_FORMATS
  /\ StartsAt(date_formats_to_use(date_order)[1], 1, "%m")

\* some format of a list parses the normalized token
SomeFormatParses(token, formats) ==
  \E k \in 1..Len(formats) : strptime(NormalizeTimestamp(token), formats[k]) # NoDate

\* contents of the cache cell: empty, and formats of the list that an earlier
\* line can have left there
CachedFormats ==
  {None, "%m/%d/%y, %I:%M %p", "%d/%m/%y, %H:%M", "%m/%d/%y, %H:%M",
   "%Y-%m-%dT%H:%M"}

\* C23: a call of _parse_timestamp in a pass returned None exactly when no
\* format of the candidate list parses the normalized token, and so does a
\* call on the same token whatever the cache cell holds; the candidate lists
\* of the three date orders agree on whether some format parses the token,
\* so whether the header opens a message is the same under each of them.
C23_NoneIffNoFormatParses ==
  \A i \in 1..Len(calls) :
     LET token   == calls[i].token
         formats == date_formats_to_use(date_order)
         parses  == SomeFormatParses(token, formats)
     IN  /\ calls[i].result = NoDate <=> ~parses
         /\ \A c \in CachedFormats :
               _parse_timestamp(token, formats, c).result = NoDate <=> ~parses
         /\ \A o \in {"DD/MM", "MM/DD", "ambiguous"} :
               SomeFormatParses(token, date_formats_to_use(o)) <=> parses

\* C23, its case: the second header of a text was parsed although the format
\* the first header left in the cache does not parse it.
C23_Witness ==
  /\ pc = "parsed"
  /\ Len(calls) = 2
  /\ calls[1].result # NoDate
  /\ calls[2].result # NoDate
  /\ LET left == _parse_timestamp(calls[1].token,
                    date_formats_to_use(date_order), None).cache
     IN  strptime(NormalizeTimestamp(calls[2].token), left) = NoDate

\* the part of a token before its first comma or whitespace character
DatePortion(s) ==
  LET seps == {i \in 1..Len(s) : Ch(s, i) \in SpaceChars \cup {","}}
  IN  IF seps = {} THEN s
      ELSE SubSeq(s, 1, (CHOOSE b \in seps : \A i \in seps : b <= i) - 1)

RECURSIVE ColonTimeFrom(_, _)
\* the token written with colons in the time: from s[i] on, a dot between
\* two digits becomes a colon
ColonTimeFrom(s, i) ==
  IF i > Len(s) THEN ""
  ELSE (IF Ch(s, i) = "." /\ DigitsAt(s, i - 1, 1) /\ DigitsAt(s, i + 1, 1)
        THEN ":" ELSE Ch(s, i)) \o ColonTimeFrom(s, i + 1)

ColonTime(s) ==
  DatePortion(s) \o ColonTimeFrom(s, Len(DatePortion(s)) + 1)

\* a dot-separated date followed by a dot-separated time
IsDotDateDotTime(s) ==
  /\ Len(DatePortion(s)) < Len(s)
  /\ \E i \in 2..Len(DatePortion(s)) - 1 : Ch(s, i) = "."
  /\ ColonTime(s) # s

DotTimeCaches ==
  {None, "%d.%m.%y, %H:%M:%S", "%d.%m.%Y %H:%M", "%Y.%m.%d, %I:%M %p"}

\* C24: for every token handed to _parse_timestamp, the normalized token
\* keeps the part before the first comma or whitespace character as it was,
\* and a token with a dot-separated date and a dot-separated time is
\* normalized to, and parses to the same timestamp as, the token written
\* with colons in the time, whatever the cache holds.
C24_DotTimeKeepsDateAndParsesAsColonTime ==
  \A i \in 1..Len(calls) :
     LET token   == Strip(calls[i].token)
         formats == date_formats_to_use(date_order)
     IN  /\ DatePortion(NormalizeTimestamp(token)) = DatePortion(token)
         /\ IsDotDateDotTime(token) =>
               /\ NormalizeTimestamp(token) = NormalizeTimestamp(ColonTime(token))
               /\ \A c \in DotTimeCaches :
                     _parse_timestamp(token, formats, c).result
                       = _parse_timestamp(ColonTime(token), formats, c).result
               /\ \E c \in DotTimeCaches :
                     calls[i].result
                       = _parse_timestamp(ColonTime(token), formats, c).result

\* C24, its case: a token with a dot-separated date and a dot-separated time
\* was parsed to a timestamp.
C24_Witness ==
  /\ pc = "parsed"
  /\ \E i \in 1..Len(calls) :
        /\ IsDotDateDotTime(Strip(calls[i].token))
        /\ calls[i].result # NoDate
        /\ calls[i].result
             = _parse_timestamp(ColonTime(calls[i].token),
                 date_formats_to_use(date_order), None).result

\* body is the text of the line after the token and the "]" or "-" that
\* follows it, trimmed
IsTextAfterTimestamp(line, token, body) ==
  \E p \in 1..2 :
     /\ StartsAt(line, p, token)
     /\ LET rest == Strip(SubSeq(line, p + Len(token), Len(line)))
        IN  /\ Len(rest) >= 1
            /\ Ch(rest, 1) \in {"]", "-"}
            /\ body = Strip(SubSeq(rest, 2, Len(rest)))

\* C25: when the segmenter takes a line that does not match the user pattern
\* of the active family and matches its system pattern with a token some
\* format parses, it opens a message whose author is "System" and whose body
\* is the text after the timestamp; when it opens a message for a line that
\* matches the user pattern, the author is the name written in the line.
C25_SystemLineOpensSentinelMessage ==
  [][(pc = "segment" /\ next_line <= Len(lines) /\ next_line' = next_line + 1) =>
       LET line == LStripChars(lines[next_line], DirectionMarks)
           user == re_match(MESSAGE_PATTERNS[pattern_idx], line)
           sys  == re_match(SYSTEM_MESSAGE_PATTERNS[pattern_idx], line)
           new  == heap'[Len(heap')]
       IN  /\ (~user.ok /\ sys.ok
                 /\ SomeFormatParses(Group(line, sys, 1), DATE_FORMATS)) =>
                 /\ Len(heap') = Len(heap) + 1
                 /\ current_message' = Len(heap')
                 /\ new.name = "System"
                 /\ IsTextAfterTimestamp(line, Group(line, sys, 1), new.message)
           /\ (user.ok /\ Len(heap') = Len(heap) + 1) =>
                 new.name = Strip(Group(line, user, 2))
    ]_vars

\* C25, its case: a parsed text holds a system line, and a row of the table
\* has the author "System" and that line's text as its body.
C25_Witness ==
  /\ pc = "parsed"
  /\ \E i \in 1..Len(lines), r \in 1..Len(parsed_df) :
        /\ ~re_match(MESSAGE_PATTERNS[pattern_idx], lines[i]).ok
        /\ re_match(SYSTEM_MESSAGE_PATTERNS[pattern_idx], lines[i]).ok
        /\ parsed_df[r].name = "System"
        /\ Len(parsed_df[r].message) \in 1..Len(lines[i])
        /\ StartsAt(lines[i], Len(lines[i]) - Len(parsed_df[r].message) + 1,
                    parsed_df[r].message)

\* C26: a call of parse_chat on an export ends as the call on the same export
\* with direction marks before its lines ended: both raise, or both give the
\* same rows (timestamp, author, body, type), whose bodies hold no mark.
C26_MarksBeforeLinesChangeNothing ==
  pc \in {"raised", "parsed"} =>
    \A e \in earlier :
       Unmarked(e.text) = raw_text =>
         /\ e.raised = Outcome.raised
         /\ e.rows = Outcome.rows
         /\ \A r \in 1..Len(e.rows) :
               ~Contains(e.rows[r].message, LRM) /\ ~Contains(e.rows[r].message, RLM)

\* C26, its case: the export parsed before had two marks before its header
\* and a mark before its continuation line, and gave a row.
C26_Witness ==
  /\ pc = "parsed"
  /\ \E e \in earlier :
        /\ Unmarked(e.text) = raw_text
        /\ StartsAt(e.text, 1, RLM \o LRM)
        /\ Contains(e.text, "\n" \o LRM)
        /\ Len(e.rows) = 1
        /\ e.rows[1].message = "hi\nmore"

\* the rows of a table are rows of another, in the order they have there
IsSubsequence(kept, table) ==
  \E at \in [1..Len(kept) -> 1..Len(table)] :
     /\ \A i \in 1..Len(kept) : kept[i] = table[at[i]]
     /\ \A i, j \in 1..Len(kept) : i < j => at[i] < at[j]

\* C27: the table parse_whatsapp_export returns holds rows of the table
\* parse_chat returned, each with all its fields as they were, in the order
\* they had there.
C27_FiltersOnlyRemoveRows ==
  pc = "exported" => IsSubsequence(df, parsed_df)

\* C27, its case: the filters removed a row and kept another.
C27_Witness ==
  /\ pc = "exported"
  /\ Len(df) >= 1
  /\ Len(df) < Len(parsed_df)

\* C29: after parse_whatsapp_export with filter_system=True no row of the
\* returned table has the author "System", and "System" is not among
\* metadata.member_names.
C29_NoSentinelAuthorAfterSystemFilter ==
  (pc = "exported" /\ filter_system) =>
    /\ \A r \in 1..Len(df) : df[r].name # "System"
    /\ \A k \in 1..Len(metadata.member_names) :
          metadata.member_names[k] # "System"

\* C30: in a pass whose detected order is DD/MM every header date that does
\* not start with a year and was parsed has its first component as the day
\* and its second as the month; in a pass whose detected order is MM/DD every
\* slash-separated header date that was parsed has its first component as the
\* month and its second as the day.  The calls are those of the pass, each
\* made with the cache the lines before it left.
C30_DayMonthFollowDetectedOrder ==
  \A i \in 1..Len(calls) :
     LET token  == calls[i].token
         result == calls[i].result
         date   == HeadDate(token)
         n1     == DigitRun(token, 1)
     IN  result # NoDate =>
           /\ (date_order = "DD/MM" /\ n1 <= 2) =>
                 (result.d = date.c1 /\ result.mo = date.c2)
           /\ (date_order = "MM/DD" /\ Ch(token, n1 + 1) = "/") =>
                 (result.mo = date.c1 /\ result.d = date.c2)

\* C30, its case: in a pass of detected order MM/DD a header whose date reads
\* both ways was parsed month first, before a format was cached and after.
C30_Witness ==
  /\ pc = "parsed"
  /\ date_order = "MM/DD"
  /\ Len(calls) = 2
  /\ \A i \in 1..2 : calls[i].result # NoDate
  /\ \E i \in 1..2 :
        /\ HeadDate(calls[i].token) = [c1 |-> 5, c2 |-> 12]
        /\ calls[i].result.mo = 5
        /\ calls[i].result.d = 12

\* the call ended with an exception
Raised == pc \notin {"load", "begin", "segment", "parsed", "exported"}

\* no member of the archive has a name that ends with .txt
NoTxtMember == \A k \in 1..Len(file.members) : ~EndsWith(file.members[k].name, ".txt")

\* C28: a call of parse_whatsapp_export that has ended returned a table with
\* the metadata of that table, or raised.  It raised FileNotFoundError exactly
\* when nothing is at the path, whatever the suffix; the unsupported-format
\* error exactly when a file is there whose suffix is neither .zip nor .txt;
\* and it raised when the archive has no .txt member.  When load_chat_file
\* raised, parse_chat had not started: no line was read, no message
\* collected, no table and no metadata built.
C28_ReturnsFinalizedPairOrRaises ==
  /\ pc = "exported" => metadata = get_chat_metadata(df)
  /\ pc # "load" =>
       /\ pc = "FileNotFoundError" <=> ~file.exists
       /\ pc = "ValueError: Unsupported file format"
            <=> (file.exists /\ ToLower(file.suffix) \notin {".zip", ".txt"})
       /\ (file.exists /\ ToLower(file.suffix) = ".zip" /\ NoTxtMember) =>
            pc = "ValueError: No chat text file found in the zip archive"
  /\ Raised =>
       /\ df = << >>
       /\ metadata = None
  /\ (Raised /\ pc # "raised") =>
       /\ raw_text = None
       /\ date_order = None
       /\ lines = << >>
       /\ calls = << >>
       /\ messages = << >>
       /\ parsed_df = << >>

\* C28, its case: nothing is at a path whose suffix is not supported, and the
\* call raised FileNotFoundError.
C28_Witness ==
  /\ pc = "FileNotFoundError"
  /\ ~file.exists
  /\ file.suffix = ".pdf"

====
